---- MODULE Spec2Model ----
(***************************************************************************)
(* Model of the materialbin codec: the decoder (TryFromCtx impls) and the  *)
(* emitter (write methods) of CompiledMaterialDefinition and of the        *)
(* productions below it, over byte sequences.                              *)
(*                                                                         *)
(* Bytes are integers 0..255 and buffers are sequences of bytes.  Offsets  *)
(* are 0-based as in the source, so the byte at offset o is buf[o+1].      *)
(* Fixed-width integers the code only carries around (u64 version, u64     *)
(* hash, opaque u32s) are kept as their little-endian byte tuples;         *)
(* integers the code computes with (counts, lengths, tags) are numbers.    *)
(* An Option<T> is a sequence of length 0 (None) or 1 (Some).              *)
(***************************************************************************)
EXTENDS Integers, Sequences, FiniteSets, TLC

VARIABLES input, build, pc, ctx, res, target, out, res2, out2, tag, tagout, tagres,
          update

vars == <<input, build, pc, ctx, res, target, out, res2, out2, tag, tagout, tagres,
          update>>

-----------------------------------------------------------------------------
(* Results of a read: Ok carries the value and the offset after it.        *)
(* Strings of the format are byte sequences; the strings below are only    *)
(* the names of enum variants and of errors.                               *)

Ok(v, o) == [ok |-> TRUE, val |-> v, off |-> o, err |-> "", panic |-> FALSE]

Err(e) == [ok |-> FALSE, val |-> <<>>, off |-> 0, err |-> e, panic |-> FALSE]

(* A panic is no value of the Result type: the call does not return.       *)
Panic(e) == [ok |-> FALSE, val |-> <<>>, off |-> 0, err |-> e, panic |-> TRUE]

(* Results of a write: the bytes produced, or the WriteError.              *)

WOk(b) == [ok |-> TRUE, bytes |-> b, err |-> ""]

(* A failed write keeps the bytes the sink received before the failure.     *)
WErr(e, partial) == [ok |-> FALSE, bytes |-> partial, err |-> e]

(* Writes in sequence with `?`: the first failure ends the sequence.       *)
RECURSIVE WCat(_)
WCat(parts) ==
    IF parts = <<>> THEN WOk(<<>>)
    ELSE LET h == Head(parts)
         IN  IF ~h.ok THEN h
             ELSE LET t == WCat(Tail(parts))
                  IN  [ok |-> t.ok, bytes |-> h.bytes \o t.bytes, err |-> t.err]

(* A production is read field by field.  The state of the read is a        *)
(* result whose value holds the fields read so far, by name; a field is    *)
(* added from the result of its read, and `?` returns a failed read as the *)
(* result of the production.                                               *)
Field(st, name, r) ==
    IF r.ok THEN Ok(st.val @@ (name :> r.val), r.off) ELSE r

Some(v) == <<v>>

(* Some(read?)                                                             *)
SomeOf(r) == IF r.ok THEN Ok(Some(r.val), r.off) ELSE r

None == <<>>

-----------------------------------------------------------------------------
(* Primitive layer                                                         *)

RECURSIVE LESum(_)
LESum(bs) == IF bs = <<>> THEN 0 ELSE Head(bs) + 256 * LESum(Tail(bs))

(* The value of a little-endian integer of at most four bytes.  A u32 of   *)
(* 2^31 or more is kept as 2^31 - 1: the code uses such a value only as a  *)
(* length, and either one is past the end of every buffer of the model.    *)
LEValue(bs) ==
    IF Len(bs) = 4 /\ bs[4] >= 128 THEN 2147483647 ELSE LESum(bs)

RECURSIVE LEBytes(_, _)
LEBytes(n, w) == IF w = 0 THEN <<>> ELSE <<n % 256>> \o LEBytes(n \div 256, w - 1)

(* scroll's gread of w raw bytes: BadOffset when the offset is at or past  *)
(* the end, TooBig when fewer than w bytes remain.                         *)
gread_raw(buf, off, w) ==
    IF off >= Len(buf) THEN Err("BadOffset")
    ELSE IF w > Len(buf) - off THEN Err("TooBig")
    ELSE Ok(SubSeq(buf, off + 1, off + w), off + w)

(* gread of a little-endian integer of w bytes, as a number.               *)
gread_int(buf, off, w) ==
    LET r == gread_raw(buf, off, w)
    IN  IF r.ok THEN Ok(LEValue(r.val), r.off) ELSE r

RECURSIVE Utf8Valid(_)
Utf8Valid(bs) ==
    IF bs = <<>> THEN TRUE
    ELSE LET b == bs[1]
             n == Len(bs)
             Cont(i) == i <= n /\ bs[i] >= 128 /\ bs[i] <= 191
         IN  IF b < 128 THEN Utf8Valid(Tail(bs))
             ELSE IF b >= 194 /\ b <= 223
                  THEN Cont(2) /\ Utf8Valid(SubSeq(bs, 3, n))
             ELSE IF b >= 224 /\ b <= 239
                  THEN /\ Cont(2) /\ Cont(3)
                       /\ (b = 224 => bs[2] >= 160)
                       /\ (b = 237 => bs[2] <= 159)
                       /\ Utf8Valid(SubSeq(bs, 4, n))
             ELSE IF b >= 240 /\ b <= 244
                  THEN /\ Cont(2) /\ Cont(3) /\ Cont(4)
                       /\ (b = 240 => bs[2] >= 144)
                       /\ (b = 244 => bs[2] <= 143)
                       /\ Utf8Valid(SubSeq(bs, 5, n))
             ELSE FALSE

(* gread_with(offset, StrCtx::Length(n)): n bytes that must be UTF-8.      *)
gread_str(buf, off, n) ==
    LET r == gread_raw(buf, off, n)
    IN  IF ~r.ok THEN r
        ELSE IF Utf8Valid(r.val) THEN r ELSE Err("BadInput: invalid utf8")

read_bool(buf, off) ==
    LET r == gread_int(buf, off, 1)
    IN  IF r.ok THEN Ok(r.val # 0, r.off) ELSE r

read_string(buf, off) ==
    LET l == gread_int(buf, off, 4)
    IN  IF l.ok THEN gread_str(buf, l.off, l.val) ELSE l

BoolByte(b) == IF b THEN 1 ELSE 0

(* usize -> u32 conversion of the length; strings of the model are far     *)
(* below 2^32 bytes, so try_into never fails here.                         *)
write_string(s) == LEBytes(Len(s), 4) \o s

(* optional_write: a presence byte, then the payload iff present.  The     *)
(* payload is given already written (a write result).                      *)
optional_write(opt, payload) ==
    IF opt = None THEN WOk(<<0>>) ELSE WCat(<<WOk(<<1>>), payload>>)

-----------------------------------------------------------------------------
(* Enumerated tags of a sampler                                            *)

(* enum SamplerType, in declaration order: `self as u8` is the position    *)
(* in this list, counted from 0.                                           *)
SamplerType ==
    <<"Type2D", "Type2DArray", "Type2DExternal", "Type3D", "TypeCube",
      "TypeSamplerCubeArray", "TypeStructuredBuffer", "TypeRawBuffer",
      "TypeAccelerationStructure", "Type2DShadow", "Type2DArrayShadow">>

Ordinal(enum, sym) == (CHOOSE i \in 1..Len(enum) : enum[i] = sym) - 1

(* SamplerType::try_from_ctx with the adjustment made only on the schemas  *)
(* before 1.21.20 instead of on every schema other than 1.21.20.           *)
SamplerType_try_from_ctx_ShiftBeforeOnly(buf, off, version) ==
    LET r == gread_int(buf, off, 1)
    IN  IF ~r.ok THEN r
        ELSE LET sampler_type ==
                     IF version \in {"V1_18_30", "V1_19_60", "V1_20_80"} /\ r.val >= 5
                     THEN (r.val + 1) % 256 ELSE r.val
             IN  IF sampler_type <= 10
                 THEN Ok(SamplerType[sampler_type + 1], r.off)
                 ELSE Err("Custom: Invalid sapmler_type")

(* `sampler_type += 1` on a u8: 255 + 1 panics in a build with overflow    *)
(* checks and wraps to 0 in a build without them.                          *)
SamplerType_try_from_ctx(buf, off, version) ==
    LET r == gread_int(buf, off, 1)
    IN  IF ~r.ok THEN r
        ELSE IF version # "V1_21_20" /\ r.val = 255 /\ build = "debug"
             THEN Panic("attempt to add with overflow")
        ELSE LET sampler_type ==
                     IF version # "V1_21_20" /\ r.val >= 5
                     THEN (r.val + 1) % 256 ELSE r.val
             IN  IF sampler_type <= 10
                 THEN Ok(SamplerType[sampler_type + 1], r.off)
                 ELSE Err("Custom: Invalid sapmler_type")

(* SamplerType::to_u8 with the refusal for the schemas before 1.21.20     *)
(* only.                                                                   *)
SamplerType_to_u8_RefuseBeforeOnly(self, version) ==
    IF version \in {"V1_18_30", "V1_19_60", "V1_20_80"}
    THEN CASE self = "TypeSamplerCubeArray" -> WErr("Compat", <<>>)
           [] self = "TypeRawBuffer" -> WOk(<<5>>)
           [] self = "TypeAccelerationStructure" -> WOk(<<6>>)
           [] self = "Type2DShadow" -> WOk(<<7>>)
           [] self = "Type2DArrayShadow" -> WOk(<<8>>)
           [] OTHER -> WOk(<<Ordinal(SamplerType, self)>>)
    ELSE WOk(<<Ordinal(SamplerType, self)>>)

SamplerType_to_u8(self, version) ==
    IF version # "V1_21_20"
    THEN CASE self = "TypeSamplerCubeArray" -> WErr("Compat", <<>>)
           [] self = "TypeRawBuffer" -> WOk(<<5>>)
           [] self = "TypeAccelerationStructure" -> WOk(<<6>>)
           [] self = "Type2DShadow" -> WOk(<<7>>)
           [] self = "Type2DArrayShadow" -> WOk(<<8>>)
           [] OTHER -> WOk(<<Ordinal(SamplerType, self)>>)
    ELSE WOk(<<Ordinal(SamplerType, self)>>)

SamplerAccess == <<"None", "Read", "Write", "ReadWrite">>

SamplerAccess_try_from_ctx(buf, off) ==
    LET r == gread_int(buf, off, 1)
    IN  IF ~r.ok THEN r
        ELSE IF r.val <= 3 THEN Ok(SamplerAccess[r.val + 1], r.off)
        ELSE Err("Custom: Sampler Access is not valid")

SamplerAccess_as_u8(self) ==
    CASE self = "None" -> 0
      [] self = "Read" -> 1
      [] self = "Write" -> 2
      [] self = "ReadWrite" -> 3

Precision == <<"Low", "Medium", "High">>

Precision_try_from_ctx(buf, off) ==
    LET r == gread_int(buf, off, 1)
    IN  IF ~r.ok THEN r
        ELSE IF r.val <= 2 THEN Ok(Precision[r.val + 1], r.off)
        ELSE Err("BadInput: Precision of samplerdef is invalid")

-----------------------------------------------------------------------------
(* Sampler definition                                                      *)

(* `if read_bool(..)? { Some(read_string(..)?) }`                          *)
read_opt_string(buf, off) ==
    LET has == read_bool(buf, off)
    IN  IF ~has.ok THEN has
        ELSE IF ~has.val THEN Ok(None, has.off)
        ELSE SomeOf(read_string(buf, has.off))

CustomTypeInfo_try_from_ctx(buf, off) ==
    IF off >= Len(buf) THEN Err("BadOffset")
    ELSE LET name == read_string(buf, off)
         IN  IF ~name.ok THEN name
             ELSE LET size == gread_raw(buf, name.off, 4)
                  IN  IF ~size.ok THEN size
                      ELSE Ok([name |-> name.val, size |-> size.val], size.off)

CustomTypeInfo_write(self) == WOk(write_string(self.name) \o self.size)

(* `if read_bool(..)? { Some(buffer.gread::<u8>(..)?) }`                   *)
read_opt_u8(buf, off) ==
    LET has == read_bool(buf, off)
    IN  IF ~has.ok THEN has
        ELSE IF ~has.val THEN Ok(None, has.off)
        ELSE SomeOf(gread_int(buf, has.off, 1))

read_opt_CustomTypeInfo(buf, off) ==
    LET has == read_bool(buf, off)
    IN  IF ~has.ok THEN has
        ELSE IF ~has.val THEN Ok(None, has.off)
        ELSE SomeOf(CustomTypeInfo_try_from_ctx(buf, has.off))

(* The body of try_from_ctx from its statement number `at` on.             *)
RECURSIVE SamplerDefinition_read(_, _, _, _)
SamplerDefinition_read(buf, st, version, at) ==
    IF ~st.ok \/ at > 12 THEN st
    ELSE SamplerDefinition_read(buf,
        CASE at = 1 -> Field(st, "reg",
                 gread_int(buf, st.off, IF version = "V1_18_30" THEN 1 ELSE 2))
          [] at = 2 -> Field(st, "access", SamplerAccess_try_from_ctx(buf, st.off))
          [] at = 3 -> Field(st, "precision", Precision_try_from_ctx(buf, st.off))
          [] at = 4 -> Field(st, "allow_unordered_access", gread_int(buf, st.off, 1))
          [] at = 5 -> Field(st, "sampler_type",
                 SamplerType_try_from_ctx(buf, st.off, version))
          [] at = 6 -> Field(st, "texture_format", read_string(buf, st.off))
          [] at = 7 -> Field(st, "unknown_int", gread_raw(buf, st.off, 4))
          [] at = 8 -> Field(st, "unknown_byte",
                 IF version # "V1_18_30" THEN gread_int(buf, st.off, 1)
                 ELSE Ok(st.val.reg, st.off))
          [] at = 9 -> Field(st, "sampler_state",
                 IF version = "V1_21_20" THEN read_opt_u8(buf, st.off)
                 ELSE Ok(None, st.off))
          [] at = 10 -> Field(st, "default_texture", read_opt_string(buf, st.off))
          [] at = 11 -> Field(st, "unknown_string",
                 IF version = "V1_20_80" \/ version = "V1_21_20"
                 THEN read_opt_string(buf, st.off)
                 ELSE Ok(None, st.off))
          [] at = 12 -> Field(st, "custom_type_info",
                 read_opt_CustomTypeInfo(buf, st.off)),
        version, at + 1)

SamplerDefinition_try_from_ctx(buf, off, version) ==
    IF off >= Len(buf) THEN Err("BadOffset")
    ELSE SamplerDefinition_read(buf, Ok(<<>>, off), version, 1)

(* Option<T> payloads: the written form of the value inside, if any.       *)
OptStr(opt) == optional_write(opt, IF opt = None THEN WOk(<<>>) ELSE WOk(write_string(opt[1])))

(* An emit that keeps the low byte of the register at 1.18.30 (`as u8`).   *)
SamplerDefinition_write_TruncateReg(self, version) ==
    WCat(<<
        IF version = "V1_18_30"
        THEN WOk(<<self.reg % 256>>)
        ELSE WOk(LEBytes(self.reg, 2)),
        WOk(<<SamplerAccess_as_u8(self.access)>>),
        WOk(<<Ordinal(Precision, self.precision)>>),
        WOk(<<self.allow_unordered_access>>),
        SamplerType_to_u8(self.sampler_type, version),
        WOk(write_string(self.texture_format)),
        WOk(self.unknown_int),
        IF version # "V1_18_30" THEN WOk(<<self.unknown_byte>>) ELSE WOk(<<>>),
        IF version = "V1_21_20"
        THEN optional_write(self.sampler_state,
                            IF self.sampler_state = None THEN WOk(<<>>)
                            ELSE WOk(<<self.sampler_state[1]>>))
        ELSE WOk(<<>>),
        OptStr(self.default_texture),
        IF version = "V1_20_80" \/ version = "V1_21_20"
        THEN OptStr(self.unknown_string) ELSE WOk(<<>>),
        optional_write(self.custom_type_info,
                       IF self.custom_type_info = None THEN WOk(<<>>)
                       ELSE CustomTypeInfo_write(self.custom_type_info[1]))
    >>)

(* An emit that writes the opaque string at 1.20.80 and every later schema. *)
SamplerDefinition_write_StringFromOn(self, version) ==
    WCat(<<
        IF version = "V1_18_30"
        THEN (IF self.reg > 255 THEN WErr("IntConvert", <<>>) ELSE WOk(<<self.reg>>))
        ELSE WOk(LEBytes(self.reg, 2)),
        WOk(<<SamplerAccess_as_u8(self.access)>>),
        WOk(<<Ordinal(Precision, self.precision)>>),
        WOk(<<self.allow_unordered_access>>),
        SamplerType_to_u8(self.sampler_type, version),
        WOk(write_string(self.texture_format)),
        WOk(self.unknown_int),
        IF version # "V1_18_30" THEN WOk(<<self.unknown_byte>>) ELSE WOk(<<>>),
        IF version = "V1_21_20"
        THEN optional_write(self.sampler_state,
                            IF self.sampler_state = None THEN WOk(<<>>)
                            ELSE WOk(<<self.sampler_state[1]>>))
        ELSE WOk(<<>>),
        OptStr(self.default_texture),
        IF version \notin {"V1_18_30", "V1_19_60"}
        THEN OptStr(self.unknown_string) ELSE WOk(<<>>),
        optional_write(self.custom_type_info,
                       IF self.custom_type_info = None THEN WOk(<<>>)
                       ELSE CustomTypeInfo_write(self.custom_type_info[1]))
    >>)

SamplerDefinition_write(self, version) ==
    WCat(<<
        IF version = "V1_18_30"
        THEN (IF self.reg > 255 THEN WErr("IntConvert", <<>>) ELSE WOk(<<self.reg>>))
        ELSE WOk(LEBytes(self.reg, 2)),
        WOk(<<SamplerAccess_as_u8(self.access)>>),
        WOk(<<Ordinal(Precision, self.precision)>>),
        WOk(<<self.allow_unordered_access>>),
        SamplerType_to_u8(self.sampler_type, version),
        WOk(write_string(self.texture_format)),
        WOk(self.unknown_int),
        IF version # "V1_18_30" THEN WOk(<<self.unknown_byte>>) ELSE WOk(<<>>),
        IF version = "V1_21_20"
        THEN optional_write(self.sampler_state,
                            IF self.sampler_state = None THEN WOk(<<>>)
                            ELSE WOk(<<self.sampler_state[1]>>))
        ELSE WOk(<<>>),
        OptStr(self.default_texture),
        IF version = "V1_20_80" \/ version = "V1_21_20"
        THEN OptStr(self.unknown_string) ELSE WOk(<<>>),
        optional_write(self.custom_type_info,
                       IF self.custom_type_info = None THEN WOk(<<>>)
                       ELSE CustomTypeInfo_write(self.custom_type_info[1]))
    >>)

-----------------------------------------------------------------------------
(* Property field                                                          *)

PropertyType_try_from_ctx(buf, off) ==
    LET r == gread_int(buf, off, 2)
    IN  IF ~r.ok THEN r
        ELSE CASE r.val = 2 -> Ok("Vec4", r.off)
               [] r.val = 3 -> Ok("Mat3", r.off)
               [] r.val = 4 -> Ok("Mat4", r.off)
               [] r.val = 5 -> Ok("External", r.off)
               [] OTHER -> Err("Custom: property type is invalid")

PropertyType_to_u16(self) ==
    CASE self = "Vec4" -> 2
      [] self = "Mat3" -> 3
      [] self = "Mat4" -> 4
      [] self = "External" -> 5

(* `buffer[offset..offset + n]`: a slice index, which panics when fewer    *)
(* than n bytes remain.                                                    *)
slice(buf, off, n) ==
    IF n > Len(buf) - off THEN Panic("range end index out of range")
    ELSE Ok(SubSeq(buf, off + 1, off + n), off + n)

RECURSIVE PropertyField_read(_, _, _)
PropertyField_read(buf, st, at) ==
    IF ~st.ok \/ at > 5 THEN st
    ELSE PropertyField_read(buf,
        CASE at = 1 -> Field(st, "field_type", PropertyType_try_from_ctx(buf, st.off))
          [] at = 2 -> Field(st, "num", gread_raw(buf, st.off, 4))
          [] at = 3 -> Field(st, "has_data", read_bool(buf, st.off))
          [] at = 4 -> Field(st, "vector_data",
                 IF st.val.has_data /\ st.val.field_type = "Vec4"
                 THEN SomeOf(slice(buf, st.off, 16)) ELSE Ok(None, st.off))
          [] at = 5 -> Field(st, "matrix_data",
                 IF st.val.has_data /\ st.val.field_type = "Mat3"
                 THEN SomeOf(slice(buf, st.off, 36))
                 ELSE IF st.val.has_data /\ st.val.field_type = "Mat4"
                 THEN SomeOf(slice(buf, st.off, 64))
                 ELSE Ok(None, st.off)),
        at + 1)

(* `Ok((Self { field_type, num, vector_data, matrix_data }, offset))`      *)
PropertyField_Self(st) ==
    IF ~st.ok THEN st
    ELSE Ok([field_type |-> st.val.field_type, num |-> st.val.num,
             vector_data |-> st.val.vector_data,
             matrix_data |-> st.val.matrix_data], st.off)

PropertyField_try_from_ctx(buf, off) ==
    IF off >= Len(buf) THEN Err("BadOffset")
    ELSE PropertyField_Self(PropertyField_read(buf, Ok(<<>>, off), 1))

(* An emit that writes the has-data byte of a field without its payload.   *)
PropertyField_write_NoPayload(self) ==
    LET data == IF self.field_type = "Vec4" THEN self.vector_data
                ELSE self.matrix_data
    IN  WOk(LEBytes(PropertyType_to_u16(self.field_type), 2)
            \o (IF self.field_type # "External" THEN self.num ELSE <<>>)
            \o (IF self.field_type = "External" THEN <<>>
                ELSE <<BoolByte(data # None)>>))

PropertyField_write(self) ==
    LET data == IF self.field_type = "Vec4" THEN self.vector_data
                ELSE self.matrix_data
    IN  WOk(LEBytes(PropertyType_to_u16(self.field_type), 2)
            \o (IF self.field_type # "External" THEN self.num ELSE <<>>)
            \o (IF self.field_type = "External" THEN <<>>
                ELSE <<BoolByte(data # None)>>
                     \o (IF data # None THEN data[1] ELSE <<>>)))

-----------------------------------------------------------------------------
(* Ordered tables.  A table is a sequence of <<key, value>> pairs in       *)
(* first-insertion order; inserting a key already present replaces its     *)
(* value where it stands (IndexMap::insert, HashMap::insert).              *)

MapInsert(m, k, v) ==
    IF \E i \in 1..Len(m) : m[i][1] = k
    THEN [i \in 1..Len(m) |-> IF m[i][1] = k THEN <<k, v>> ELSE m[i]]
    ELSE Append(m, <<k, v>>)

(* A table being read: the entries inserted so far and the key of the      *)
(* entry being read.                                                       *)
NoEntries(off) == Ok([map |-> <<>>, key |-> <<>>], off)

Key(st, r) ==
    IF r.ok THEN Ok([map |-> st.val.map, key |-> r.val], r.off) ELSE r

Value(st, r) ==
    IF r.ok
    THEN Ok([map |-> MapInsert(st.val.map, st.val.key, r.val), key |-> <<>>], r.off)
    ELSE r

Entries(st) == IF st.ok THEN Ok(st.val.map, st.off) ELSE st

(* `for _ in 0..n { key = read_string; value = read_string; insert }`      *)
RECURSIVE read_pairs(_, _, _, _)
read_pairs(buf, st, n, at) ==
    IF ~st.ok \/ n = 0 THEN st
    ELSE IF at = "key"
    THEN read_pairs(buf, Key(st, read_string(buf, st.off)), n, "value")
    ELSE read_pairs(buf, Value(st, read_string(buf, st.off)), n - 1, "key")

RECURSIVE write_pairs(_)
write_pairs(m) ==
    IF m = <<>> THEN <<>>
    ELSE write_string(m[1][1]) \o write_string(m[1][2]) \o write_pairs(Tail(m))

-----------------------------------------------------------------------------
(* Enumerated tags of a pass                                               *)

BlendMode ==
    <<"None", "Replace", "AlphaBlend", "ColorBlendAlphaAdd", "PreMultiplied",
      "InvertColor", "Additive", "AdditiveAlpha", "Multiply", "MultiplyBoth",
      "InverseSrcAlpha", "SrcAlpha">>

BlendMode_try_from_ctx(buf, off) ==
    LET r == gread_int(buf, off, 2)
    IN  IF ~r.ok THEN r
        ELSE IF r.val <= 11 THEN Ok(BlendMode[r.val + 1], r.off)
        ELSE Err("Custom: Invalid blend_mode")

BlendMode_as_u16(self) ==
    CASE self = "None" -> 0
      [] self = "Replace" -> 1
      [] self = "AlphaBlend" -> 2
      [] self = "ColorBlendAlphaAdd" -> 3
      [] self = "PreMultiplied" -> 4
      [] self = "InvertColor" -> 5
      [] self = "Additive" -> 6
      [] self = "AdditiveAlpha" -> 7
      [] self = "Multiply" -> 8
      [] self = "MultiplyBoth" -> 9
      [] self = "InverseSrcAlpha" -> 10
      [] self = "SrcAlpha" -> 11

ShaderCodePlatform ==
    <<"Direct3DSm40", "Direct3DSm50", "Direct3DSm60", "Direct3DSm65",
      "Direct3DXB1", "Direct3DXBX", "Glsl120", "Glsl430", "Essl100",
      "Essl300", "Essl310", "Metal", "Vulkan", "Nvn", "Pssl">>

ShaderCodePlatform_try_from_ctx(buf, off) ==
    LET r == gread_int(buf, off, 1)
    IN  IF ~r.ok THEN r
        ELSE IF r.val <= 14 THEN Ok(ShaderCodePlatform[r.val + 1], r.off)
        ELSE Err("Custom: Invalid ShaderCodePlatform")

ShaderStage == <<"Vertex", "Fragment", "Compute", "Unknown">>

ShaderStage_try_from_ctx(buf, off) ==
    LET r == gread_int(buf, off, 1)
    IN  IF ~r.ok THEN r
        ELSE IF r.val <= 3 THEN Ok(ShaderStage[r.val + 1], r.off)
        ELSE Err("Custom: Invalid ShaderStage")

ShaderInputType ==
    <<"Float", "Vec2", "Vec3", "Vec4", "Int", "Int2", "Int3", "Int4",
      "UInt", "UInt2", "UInt3", "UInt4", "Mat4">>

ShaderInputType_try_from_ctx(buf, off) ==
    LET r == gread_int(buf, off, 1)
    IN  IF ~r.ok THEN r
        ELSE IF r.val <= 12 THEN Ok(ShaderInputType[r.val + 1], r.off)
        ELSE Err("Custom: Invalid ShaderInputType")

PrecisionConstraint == <<"Low", "Medium", "High">>

PrecisionConstraint_try_from_ctx(buf, off) ==
    LET r == gread_int(buf, off, 1)
    IN  IF ~r.ok THEN r
        ELSE IF r.val <= 2 THEN Ok(PrecisionConstraint[r.val + 1], r.off)
        ELSE Err("Custom: Invalid PrecisionConstraint")

InterpolationConstraint == <<"Flat", "Smooth", "NoPerspective", "Centroid">>

InterpolationConstraint_try_from_ctx(buf, off) ==
    LET r == gread_int(buf, off, 1)
    IN  IF ~r.ok THEN r
        ELSE IF r.val <= 3 THEN Ok(InterpolationConstraint[r.val + 1], r.off)
        ELSE Err("Custom: Invalid InterpolationConstraint")

Attribute_to_tuple(self) ==
    CASE self = "Position" -> <<0, 0>>
      [] self = "Normal" -> <<1, 0>>
      [] self = "Tangent" -> <<2, 0>>
      [] self = "Bitangent" -> <<3, 0>>
      [] self = "Color0" -> <<4, 0>>
      [] self = "Color1" -> <<4, 1>>
      [] self = "Color2" -> <<4, 2>>
      [] self = "Color3" -> <<4, 3>>
      [] self = "Indices" -> <<5, 0>>
      [] self = "Weights" -> <<6, 0>>
      [] self = "TexCoord0" -> <<7, 0>>
      [] self = "TexCoord1" -> <<7, 1>>
      [] self = "TexCoord2" -> <<7, 2>>
      [] self = "TexCoord3" -> <<7, 3>>
      [] self = "TexCoord4" -> <<7, 4>>
      [] self = "TexCoord5" -> <<7, 5>>
      [] self = "TexCoord6" -> <<7, 6>>
      [] self = "TexCoord7" -> <<7, 7>>
      [] self = "TexCoord8" -> <<7, 8>>
      [] self = "FrontFacing" -> <<9, 0>>

Attribute_try_from_ctx(buf, off) ==
    IF off >= Len(buf) THEN Err("BadOffset")
    ELSE IF off + 1 >= Len(buf) THEN Err("BadOffset")
    ELSE LET index == buf[off + 1]
             sub_index == buf[off + 2]
         IN  CASE index = 0 /\ sub_index = 0 -> Ok("Position", off + 2)
               [] index = 1 /\ sub_index = 0 -> Ok("Normal", off + 2)
               [] index = 2 /\ sub_index = 0 -> Ok("Tangent", off + 2)
               [] index = 3 /\ sub_index = 0 -> Ok("Bitangent", off + 2)
               [] index = 4 /\ sub_index = 0 -> Ok("Color0", off + 2)
               [] index = 4 /\ sub_index = 1 -> Ok("Color1", off + 2)
               [] index = 4 /\ sub_index = 2 -> Ok("Color2", off + 2)
               [] index = 4 /\ sub_index = 3 -> Ok("Color3", off + 2)
               [] index = 5 /\ sub_index = 0 -> Ok("Indices", off + 2)
               [] index = 6 /\ sub_index = 0 -> Ok("Weights", off + 2)
               [] index = 7 /\ sub_index = 0 -> Ok("TexCoord0", off + 2)
               [] index = 7 /\ sub_index = 1 -> Ok("TexCoord1", off + 2)
               [] index = 7 /\ sub_index = 2 -> Ok("TexCoord2", off + 2)
               [] index = 7 /\ sub_index = 3 -> Ok("TexCoord3", off + 2)
               [] index = 7 /\ sub_index = 4 -> Ok("TexCoord4", off + 2)
               [] index = 7 /\ sub_index = 5 -> Ok("TexCoord5", off + 2)
               [] index = 7 /\ sub_index = 6 -> Ok("TexCoord6", off + 2)
               [] index = 7 /\ sub_index = 7 -> Ok("TexCoord7", off + 2)
               [] index = 7 /\ sub_index = 8 -> Ok("TexCoord8", off + 2)
               [] index = 9 /\ sub_index = 0 -> Ok("FrontFacing", off + 2)
               [] OTHER -> Err("Custom: Attribute tuple is invalid")

-----------------------------------------------------------------------------
(* Shader input, platform/stage key, shader code, variant, pass            *)

read_opt_PrecisionConstraint(buf, off) ==
    LET has == read_bool(buf, off)
    IN  IF ~has.ok THEN has
        ELSE IF ~has.val THEN Ok(None, has.off)
        ELSE SomeOf(PrecisionConstraint_try_from_ctx(buf, has.off))

read_opt_InterpolationConstraint(buf, off) ==
    LET has == read_bool(buf, off)
    IN  IF ~has.ok THEN has
        ELSE IF ~has.val THEN Ok(None, has.off)
        ELSE SomeOf(InterpolationConstraint_try_from_ctx(buf, has.off))

RECURSIVE ShaderInput_read(_, _, _)
ShaderInput_read(buf, st, at) ==
    IF ~st.ok \/ at > 5 THEN st
    ELSE ShaderInput_read(buf,
        CASE at = 1 -> Field(st, "input_type", ShaderInputType_try_from_ctx(buf, st.off))
          [] at = 2 -> Field(st, "attribute", Attribute_try_from_ctx(buf, st.off))
          [] at = 3 -> Field(st, "is_per_instance", read_bool(buf, st.off))
          [] at = 4 -> Field(st, "precision_constraint",
                 read_opt_PrecisionConstraint(buf, st.off))
          [] at = 5 -> Field(st, "interpolation_constraint",
                 read_opt_InterpolationConstraint(buf, st.off)),
        at + 1)

ShaderInput_try_from_ctx(buf, off) ==
    IF off >= Len(buf) THEN Err("BadOffset")
    ELSE ShaderInput_read(buf, Ok(<<>>, off), 1)

ShaderInput_write(self) ==
    <<Ordinal(ShaderInputType, self.input_type)>>
    \o Attribute_to_tuple(self.attribute)
    \o <<BoolByte(self.is_per_instance)>>
    \o (IF self.precision_constraint = None THEN <<0>>
        ELSE <<1, Ordinal(PrecisionConstraint, self.precision_constraint[1])>>)
    \o (IF self.interpolation_constraint = None THEN <<0>>
        ELSE <<1, Ordinal(InterpolationConstraint, self.interpolation_constraint[1])>>)

(* Every read is followed by unwrap(): a failed read is a panic.           *)
unwrap(r) == IF r.ok THEN r ELSE Panic(r.err)

RECURSIVE PlatformShaderStage_read(_, _, _)
PlatformShaderStage_read(buf, st, at) ==
    IF ~st.ok \/ at > 4 THEN st
    ELSE PlatformShaderStage_read(buf,
        CASE at = 1 -> Field(st, "stage_name", unwrap(read_string(buf, st.off)))
          [] at = 2 -> Field(st, "platform_name", unwrap(read_string(buf, st.off)))
          [] at = 3 -> Field(st, "stage", unwrap(ShaderStage_try_from_ctx(buf, st.off)))
          [] at = 4 -> Field(st, "platform",
                 unwrap(ShaderCodePlatform_try_from_ctx(buf, st.off))),
        at + 1)

PlatformShaderStage_try_from_ctx(buf, off) ==
    IF off >= Len(buf) THEN Err("BadOffset")
    ELSE PlatformShaderStage_read(buf, Ok(<<>>, off), 1)

PlatformShaderStage_write(self) ==
    write_string(self.stage_name) \o write_string(self.platform_name)
    \o <<Ordinal(ShaderStage, self.stage), Ordinal(ShaderCodePlatform, self.platform)>>

RECURSIVE read_shader_inputs(_, _, _, _)
read_shader_inputs(buf, st, n, at) ==
    IF ~st.ok \/ n = 0 THEN st
    ELSE IF at = "key"
    THEN read_shader_inputs(buf, Key(st, read_string(buf, st.off)), n, "value")
    ELSE read_shader_inputs(buf, Value(st, ShaderInput_try_from_ctx(buf, st.off)),
                            n - 1, "key")

RECURSIVE ShaderCode_read(_, _, _)
ShaderCode_read(buf, st, at) ==
    IF ~st.ok \/ at > 5 THEN st
    ELSE ShaderCode_read(buf,
        CASE at = 1 -> Field(st, "input_count", gread_int(buf, st.off, 2))
          [] at = 2 -> Field(st, "shader_inputs",
                 Entries(read_shader_inputs(buf, NoEntries(st.off),
                                            st.val.input_count, "key")))
          [] at = 3 -> Field(st, "source_hash", gread_raw(buf, st.off, 8))
          [] at = 4 -> Field(st, "bsd_len", gread_int(buf, st.off, 4))
          [] at = 5 -> Field(st, "bgfx_shader_data", slice(buf, st.off, st.val.bsd_len)),
        at + 1)

ShaderCode_Self(st) ==
    IF ~st.ok THEN st
    ELSE Ok([shader_inputs |-> st.val.shader_inputs,
             source_hash |-> st.val.source_hash,
             bgfx_shader_data |-> st.val.bgfx_shader_data], st.off)

ShaderCode_try_from_ctx(buf, off) ==
    IF off >= Len(buf) THEN Err("BadOffset")
    ELSE ShaderCode_Self(ShaderCode_read(buf, Ok(<<>>, off), 1))

RECURSIVE write_shader_inputs(_)
write_shader_inputs(m) ==
    IF m = <<>> THEN <<>>
    ELSE write_string(m[1][1]) \o ShaderInput_write(m[1][2])
         \o write_shader_inputs(Tail(m))

ShaderCode_write(self) ==
    LEBytes(Len(self.shader_inputs), 2)
    \o write_shader_inputs(self.shader_inputs)
    \o self.source_hash
    \o LEBytes(Len(self.bgfx_shader_data), 4)
    \o self.bgfx_shader_data

RECURSIVE read_shader_codes(_, _, _, _)
read_shader_codes(buf, st, n, at) ==
    IF ~st.ok \/ n = 0 THEN st
    ELSE IF at = "key"
    THEN read_shader_codes(buf, Key(st, PlatformShaderStage_try_from_ctx(buf, st.off)),
                           n, "value")
    ELSE read_shader_codes(buf, Value(st, ShaderCode_try_from_ctx(buf, st.off)),
                           n - 1, "key")

RECURSIVE Variant_read(_, _, _)
Variant_read(buf, st, at) ==
    IF ~st.ok \/ at > 5 THEN st
    ELSE Variant_read(buf,
        CASE at = 1 -> Field(st, "is_supported", read_bool(buf, st.off))
          [] at = 2 -> Field(st, "flag_count", gread_int(buf, st.off, 2))
          [] at = 3 -> Field(st, "shader_code_count", gread_int(buf, st.off, 2))
          [] at = 4 -> Field(st, "flags",
                 Entries(read_pairs(buf, NoEntries(st.off), st.val.flag_count, "key")))
          [] at = 5 -> Field(st, "shader_codes",
                 Entries(read_shader_codes(buf, NoEntries(st.off),
                                           st.val.shader_code_count, "key"))),
        at + 1)

Variant_Self(st) ==
    IF ~st.ok THEN st
    ELSE Ok([is_supported |-> st.val.is_supported, flags |-> st.val.flags,
             shader_codes |-> st.val.shader_codes], st.off)

Variant_try_from_ctx(buf, off) ==
    IF off >= Len(buf) THEN Err("BadOffset")
    ELSE Variant_Self(Variant_read(buf, Ok(<<>>, off), 1))

RECURSIVE write_shader_codes(_)
write_shader_codes(m) ==
    IF m = <<>> THEN <<>>
    ELSE PlatformShaderStage_write(m[1][1]) \o ShaderCode_write(m[1][2])
         \o write_shader_codes(Tail(m))

(* An emit that writes each count right before the entries it counts.      *)
Variant_write_CountBeforeEach(self) ==
    <<BoolByte(self.is_supported)>>
    \o LEBytes(Len(self.flags), 2)
    \o write_pairs(self.flags)
    \o LEBytes(Len(self.shader_codes), 2)
    \o write_shader_codes(self.shader_codes)

Variant_write(self) ==
    <<BoolByte(self.is_supported)>>
    \o LEBytes(Len(self.flags), 2)
    \o LEBytes(Len(self.shader_codes), 2)
    \o write_pairs(self.flags)
    \o write_shader_codes(self.shader_codes)

(* `(0..variant_count).flat_map(|_| buffer.gread(&mut offset)).collect()`: *)
(* an Err yields no element and leaves the offset where it was, and the    *)
(* iteration goes on; only a panic leaves the loop.                        *)
Collect(st, r) ==
    IF r.ok THEN Ok(Append(st.val, r.val), r.off)
    ELSE IF r.panic THEN r
    ELSE st

RECURSIVE read_variants(_, _, _)
read_variants(buf, st, n) ==
    IF ~st.ok \/ n = 0 THEN st
    ELSE read_variants(buf, Collect(st, Variant_try_from_ctx(buf, st.off)), n - 1)

(* An offset that wrapped below zero, usize::MAX + 1 + n for n < 0: it is  *)
(* past the end of every buffer, and stays so when a few bytes are added.  *)
(* The model keeps it as 2^30 + n, within the range of its integers.       *)
WrappedOffset(n) == 1073741824 + n

(* The bitset of a pass.  On the oldest schema the first byte is peeked    *)
(* and the offset, local to the production and 1 after the peek, is        *)
(* rewound by 4.                                                           *)
Pass_bitset(buf, off, version) ==
    IF version = "V1_18_30"
    THEN LET peek == gread_int(buf, off, 1)
             rewound == IF (peek.off - off) - 4 < 0
                        THEN WrappedOffset((peek.off - off) - 4)
                        ELSE peek.off - 4
         IN  IF ~peek.ok THEN peek
             ELSE IF (peek.off - off) - 4 < 0 /\ build = "debug"
             THEN Panic("attempt to subtract with overflow")
             ELSE IF peek.val = 15 THEN read_string(buf, rewound)
             ELSE Ok(<<>>, rewound + 1)
    ELSE read_string(buf, off)

read_opt_BlendMode(buf, off) ==
    LET has == read_bool(buf, off)
    IN  IF ~has.ok THEN has
        ELSE IF ~has.val THEN Ok(None, has.off)
        ELSE SomeOf(BlendMode_try_from_ctx(buf, has.off))

RECURSIVE Pass_read(_, _, _, _)
Pass_read(buf, st, version, at) ==
    IF ~st.ok \/ at > 7 THEN st
    ELSE Pass_read(buf,
        CASE at = 1 -> Field(st, "bitset", Pass_bitset(buf, st.off, version))
          [] at = 2 -> Field(st, "fallback", read_string(buf, st.off))
          [] at = 3 -> Field(st, "default_blendmode", read_opt_BlendMode(buf, st.off))
          [] at = 4 -> Field(st, "flag_dvalue_count", gread_int(buf, st.off, 2))
          [] at = 5 -> Field(st, "default_flag_values",
                 Entries(read_pairs(buf, NoEntries(st.off),
                                    st.val.flag_dvalue_count, "key")))
          [] at = 6 -> Field(st, "variant_count", gread_int(buf, st.off, 2))
          [] at = 7 -> Field(st, "variants",
                 read_variants(buf, Ok(<<>>, st.off), st.val.variant_count)),
        version, at + 1)

Pass_Self(st) ==
    IF ~st.ok THEN st
    ELSE Ok([bitset |-> st.val.bitset, fallback |-> st.val.fallback,
             default_blendmode |-> st.val.default_blendmode,
             default_flag_values |-> st.val.default_flag_values,
             variants |-> st.val.variants], st.off)

Pass_try_from_ctx(buf, off, version) ==
    IF off >= Len(buf) THEN Err("BadOffset")
    ELSE Pass_Self(Pass_read(buf, Ok(<<>>, off), version, 1))

RECURSIVE write_variants(_)
write_variants(vs) ==
    IF vs = <<>> THEN <<>> ELSE Variant_write(vs[1]) \o write_variants(Tail(vs))

(* Pass::write with the refusal tied to the oldest schema.                 *)
Pass_write_RefuseOldestOnly(self, version) ==
    IF self.bitset = <<>> /\ version = "V1_18_30"
    THEN WErr("Compat: Bitset string is empty", <<>>)
    ELSE WOk(write_string(self.bitset)
             \o write_string(self.fallback)
             \o (IF self.default_blendmode = None THEN <<0>>
                 ELSE <<1>> \o LEBytes(BlendMode_as_u16(self.default_blendmode[1]), 2))
             \o LEBytes(Len(self.default_flag_values), 2)
             \o write_pairs(self.default_flag_values)
             \o LEBytes(Len(self.variants), 2)
             \o write_variants(self.variants))

Pass_write(self, version) ==
    IF self.bitset = <<>> THEN WErr("Compat: Bitset string is empty", <<>>)
    ELSE WOk(write_string(self.bitset)
             \o write_string(self.fallback)
             \o (IF self.default_blendmode = None THEN <<0>>
                 ELSE <<1>> \o LEBytes(BlendMode_as_u16(self.default_blendmode[1]), 2))
             \o LEBytes(Len(self.default_flag_values), 2)
             \o write_pairs(self.default_flag_values)
             \o LEBytes(Len(self.variants), 2)
             \o write_variants(self.variants))

-----------------------------------------------------------------------------
(* CompiledMaterialDefinition                                              *)

(* const MAGIC: u64 = 0xA11DA1A, as its eight little-endian bytes.         *)
MAGIC == <<26, 218, 17, 10, 0, 0, 0, 0>>

(* "RenderDragon.CompiledMaterialDefinition"                               *)
Banner ==
    <<82, 101, 110, 100, 101, 114, 68, 114, 97, 103, 111, 110, 46, 67, 111,
      109, 112, 105, 108, 101, 100, 77, 97, 116, 101, 114, 105, 97, 108, 68,
      101, 102, 105, 110, 105, 116, 105, 111, 110>>

(* The u32 tags 0x4E4F4E45, 0x534D504C, 0x4B595052, little-endian.         *)
EncryptionTag(self) ==
    CASE self = "None" -> <<69, 78, 79, 78>>
      [] self = "SimplePassphrase" -> <<76, 80, 77, 83>>
      [] self = "KeyPair" -> <<82, 80, 89, 75>>

(* EncryptionVariant read with every known tag taken for NONE.             *)
EncryptionVariant_try_from_ctx_AllNone(buf, off) ==
    LET r == gread_raw(buf, off, 4)
        known == {"None", "SimplePassphrase", "KeyPair"}
    IN  IF ~r.ok THEN r
        ELSE IF \E e \in known : EncryptionTag(e) = r.val
        THEN Ok("None", r.off)
        ELSE Err("Custom: Invalid EnctyptionVariant")

EncryptionVariant_try_from_ctx(buf, off) ==
    LET r == gread_raw(buf, off, 4)
        known == {"None", "SimplePassphrase", "KeyPair"}
    IN  IF ~r.ok THEN r
        ELSE IF \E e \in known : EncryptionTag(e) = r.val
        THEN Ok(CHOOSE e \in known : EncryptionTag(e) = r.val, r.off)
        ELSE Err("Custom: Invalid EnctyptionVariant")

EncryptionVariant_write(self) == EncryptionTag(self)

(* The schemas, oldest first.                                              *)
ALL_VERSIONS ==
    <<"V1_18_30", "V1_19_60", "V1_20_80", "V1_21_20", "V1_21_110", "V26_0_24">>

MinecraftVersion == {ALL_VERSIONS[i] : i \in 1..Len(ALL_VERSIONS)}

(* impl Default for MinecraftVersion                                       *)
MinecraftVersion_default == "V1_20_80"

RECURSIVE read_sampler_definitions(_, _, _, _, _)
read_sampler_definitions(buf, st, n, version, at) ==
    IF ~st.ok \/ n = 0 THEN st
    ELSE IF at = "key"
    THEN read_sampler_definitions(buf, Key(st, read_string(buf, st.off)),
                                  n, version, "value")
    ELSE read_sampler_definitions(buf,
             Value(st, SamplerDefinition_try_from_ctx(buf, st.off, version)),
             n - 1, version, "key")

RECURSIVE read_property_fields(_, _, _, _)
read_property_fields(buf, st, n, at) ==
    IF ~st.ok \/ n = 0 THEN st
    ELSE IF at = "key"
    THEN read_property_fields(buf, Key(st, read_string(buf, st.off)), n, "value")
    ELSE read_property_fields(buf, Value(st, PropertyField_try_from_ctx(buf, st.off)),
                              n - 1, "key")

(* `let pass: Pass = buffer.gread(&mut offset)?`: gread passes the default *)
(* context to the production.                                              *)
RECURSIVE read_passes(_, _, _, _)
read_passes(buf, st, n, at) ==
    IF ~st.ok \/ n = 0 THEN st
    ELSE IF at = "key"
    THEN read_passes(buf, Key(st, read_string(buf, st.off)), n, "value")
    ELSE read_passes(buf,
             Value(st, Pass_try_from_ctx(buf, st.off, MinecraftVersion_default)),
             n - 1, "key")

(* The comparison left out: what was read is taken as it is.               *)
Expect_Unchecked(r, expected, msg) == r

(* `if read != expected { return Err(BadInput { msg }) }`                  *)
Expect(r, expected, msg) ==
    IF r.ok /\ r.val # expected THEN Err(msg) ELSE r

RECURSIVE CompiledMaterialDefinition_read(_, _, _, _)
CompiledMaterialDefinition_read(buf, st, version, at) ==
    IF ~st.ok \/ at > 13 THEN st
    ELSE CompiledMaterialDefinition_read(buf,
        CASE at = 1 -> Field(st, "magic",
                 Expect(gread_raw(buf, st.off, 8), MAGIC, "BadInput: Invalid magic"))
          [] at = 2 -> Field(st, "banner",
                 Expect(read_string(buf, st.off), Banner, "BadInput: Invalid definition"))
          [] at = 3 -> Field(st, "version", gread_raw(buf, st.off, 8))
          [] at = 4 -> Field(st, "encryption_variant",
                 Expect(EncryptionVariant_try_from_ctx(buf, st.off), "None",
                        "BadInput: Not decrypting encrypted material"))
          [] at = 5 -> Field(st, "name", read_string(buf, st.off))
          [] at = 6 -> Field(st, "parent_name", read_opt_string(buf, st.off))
          [] at = 7 -> Field(st, "sampler_definition_count", gread_int(buf, st.off, 1))
          [] at = 8 -> Field(st, "sampler_definitions",
                 Entries(read_sampler_definitions(buf, NoEntries(st.off),
                             st.val.sampler_definition_count, version, "key")))
          [] at = 9 -> Field(st, "property_field_count", gread_int(buf, st.off, 2))
          [] at = 10 -> Field(st, "property_fields",
                 Entries(read_property_fields(buf, NoEntries(st.off),
                             st.val.property_field_count, "key")))
          [] at = 11 -> Field(st, "pass_count", gread_int(buf, st.off, 2))
          [] at = 12 -> Field(st, "passes",
                 Entries(read_passes(buf, NoEntries(st.off), st.val.pass_count, "key")))
          [] at = 13 -> Field(st, "end", gread_raw(buf, st.off, 8)),
        version, at + 1)

(* `Ok((Self { .. }, offset))`: `end` is not among the fields and is not   *)
(* looked at.                                                              *)
CompiledMaterialDefinition_Self(st) ==
    IF ~st.ok THEN st
    ELSE Ok([version |-> st.val.version,
             encryption_variant |-> st.val.encryption_variant,
             name |-> st.val.name, parent_name |-> st.val.parent_name,
             sampler_definitions |-> st.val.sampler_definitions,
             property_fields |-> st.val.property_fields,
             passes |-> st.val.passes], st.off)

CompiledMaterialDefinition_try_from_ctx(buf, version) ==
    CompiledMaterialDefinition_Self(
        CompiledMaterialDefinition_read(buf, Ok(<<>>, 0), version, 1))

(* The top-level tables are HashMaps: iteration visits the entries in an   *)
(* order the program does not control.  `perm` is the order of one         *)
(* iteration, a permutation of the entries' positions.                     *)
Perms(n) == {p \in [1..n -> 1..n] : \A i, j \in 1..n : i # j => p[i] # p[j]}

Orders(self) ==
    [samplers : Perms(Len(self.sampler_definitions)),
     props : Perms(Len(self.property_fields)),
     passes : Perms(Len(self.passes))]

(* `len().try_into()?` into an integer of w bytes.                         *)
write_len(n, w) ==
    IF (w = 1 /\ n > 255) \/ (w = 2 /\ n > 65535)
    THEN WErr("IntConvert", <<>>) ELSE WOk(LEBytes(n, w))

write_sampler_definitions(m, perm, version) ==
    WCat([i \in 1..Len(m) |->
            WCat(<<WOk(write_string(m[perm[i]][1])),
                   SamplerDefinition_write(m[perm[i]][2], version)>>)])

write_property_fields(m, perm) ==
    WCat([i \in 1..Len(m) |->
            WCat(<<WOk(write_string(m[perm[i]][1])),
                   PropertyField_write(m[perm[i]][2])>>)])

write_passes(m, perm, version) ==
    WCat([i \in 1..Len(m) |->
            WCat(<<WOk(write_string(m[perm[i]][1])),
                   Pass_write(m[perm[i]][2], version)>>)])

CompiledMaterialDefinition_write(self, version, order) ==
    WCat(<<
        WOk(MAGIC),
        WOk(write_string(Banner)),
        WOk(self.version),
        WOk(EncryptionVariant_write(self.encryption_variant)),
        WOk(write_string(self.name)),
        OptStr(self.parent_name),
        write_len(Len(self.sampler_definitions), 1),
        write_sampler_definitions(self.sampler_definitions, order.samplers, version),
        write_len(Len(self.property_fields), 2),
        write_property_fields(self.property_fields, order.props),
        write_len(Len(self.passes), 2),
        write_passes(self.passes, order.passes, version),
        WOk(MAGIC)
    >>)

-----------------------------------------------------------------------------
(* The enumerated tags on their own: the symbols of each enumeration, the  *)
(* integer the write side produces for a symbol, and the symbol the read   *)
(* side produces for an integer.                                           *)

PropertyType == <<"Vec4", "Mat3", "Mat4", "External">>

Attribute ==
    <<"Position", "Normal", "Tangent", "Bitangent", "Color0", "Color1",
      "Color2", "Color3", "Indices", "Weights", "TexCoord0", "TexCoord1",
      "TexCoord2", "TexCoord3", "TexCoord4", "TexCoord5", "TexCoord6",
      "TexCoord7", "TexCoord8", "FrontFacing">>

EncryptionVariant == <<"None", "SimplePassphrase", "KeyPair">>

Enumerations ==
    [BlendMode |-> BlendMode, SamplerAccess |-> SamplerAccess,
     SamplerType |-> SamplerType, Precision |-> Precision,
     PrecisionConstraint |-> PrecisionConstraint,
     InterpolationConstraint |-> InterpolationConstraint,
     PropertyType |-> PropertyType, ShaderStage |-> ShaderStage,
     ShaderCodePlatform |-> ShaderCodePlatform,
     ShaderInputType |-> ShaderInputType, Attribute |-> Attribute,
     EncryptionVariant |-> EncryptionVariant]

(* The integer written for a symbol, as the bytes written.                 *)
Tag_write(enum, self, version) ==
    CASE enum = "BlendMode" -> WOk(LEBytes(BlendMode_as_u16(self), 2))
      [] enum = "SamplerAccess" -> WOk(<<SamplerAccess_as_u8(self)>>)
      [] enum = "SamplerType" -> SamplerType_to_u8(self, version)
      [] enum = "PropertyType" -> WOk(LEBytes(PropertyType_to_u16(self), 2))
      [] enum = "Attribute" -> WOk(Attribute_to_tuple(self))
      [] enum = "EncryptionVariant" -> WOk(EncryptionVariant_write(self))
      [] OTHER -> WOk(<<Ordinal(Enumerations[enum], self)>>)

(* buf.pread_with(0, ctx) of the enumeration.                              *)
Tag_try_from_ctx(enum, buf, version) ==
    CASE enum = "BlendMode" -> BlendMode_try_from_ctx(buf, 0)
      [] enum = "SamplerAccess" -> SamplerAccess_try_from_ctx(buf, 0)
      [] enum = "SamplerType" -> SamplerType_try_from_ctx(buf, 0, version)
      [] enum = "Precision" -> Precision_try_from_ctx(buf, 0)
      [] enum = "PrecisionConstraint" -> PrecisionConstraint_try_from_ctx(buf, 0)
      [] enum = "InterpolationConstraint" -> InterpolationConstraint_try_from_ctx(buf, 0)
      [] enum = "PropertyType" -> PropertyType_try_from_ctx(buf, 0)
      [] enum = "ShaderStage" -> ShaderStage_try_from_ctx(buf, 0)
      [] enum = "ShaderCodePlatform" -> ShaderCodePlatform_try_from_ctx(buf, 0)
      [] enum = "ShaderInputType" -> ShaderInputType_try_from_ctx(buf, 0)
      [] enum = "Attribute" -> Attribute_try_from_ctx(buf, 0)
      [] enum = "EncryptionVariant" -> EncryptionVariant_try_from_ctx(buf, 0)

-----------------------------------------------------------------------------
(* The input files.  Each is assembled byte by byte from the wire layout;  *)
(* none is produced by the emitter above.                                  *)

MaxProps == 2

LayoutsPerByte == 2

MaxUniforms == 2

FxStr(s) == LEBytes(Len(s), 4) \o s

FxU64(n) == LEBytes(n, 8)

RECURSIVE FxFill(_, _)
FxFill(n, b) == IF n = 0 THEN <<>> ELSE <<b>> \o FxFill(n - 1, b)

RECURSIVE FxConcat(_)
FxConcat(chunks) == IF chunks = <<>> THEN <<>> ELSE Head(chunks) \o FxConcat(Tail(chunks))

NameM == <<109>>

NameBase == <<98, 97, 115, 101>>

CoreBuiltins == <<67, 111, 114, 101, 47, 66, 117, 105, 108, 116, 105, 110, 115>>

BadMagicBytes == <<26, 218, 17, 10, 0, 0, 0, 1>>

(* name | optional parent | u8 samplers | u16 properties | [overrides] |   *)
(* u16 passes, the tables given as their bytes after the count.            *)
FxBody(name, parent, nsamplers, samplers, nprops, props, overrides, npasses, passes) ==
    FxStr(name)
    \o (IF parent = None THEN <<0>> ELSE <<1>> \o FxStr(parent[1]))
    \o <<nsamplers>> \o samplers
    \o LEBytes(nprops, 2) \o props
    \o overrides
    \o LEBytes(npasses, 2) \o passes

FxFile(open, banner, ver, enc, body, close) ==
    open \o FxStr(banner) \o FxU64(ver) \o enc \o body \o close

FxEmptyBody(name, overrides) == FxBody(name, None, 0, <<>>, 0, <<>>, overrides, 0, <<>>)

FxPlain(ver, body) == FxFile(MAGIC, Banner, ver, EncryptionTag("None"), body, MAGIC)

(* The override section: absent, an empty table, a table of one pair.      *)
FxOverrides ==
    [absent |-> <<>>, empty |-> <<0, 0>>,
     one |-> <<1, 0>> \o FxStr(<<117>>) \o FxStr(<<118>>)]

(* The KYPR envelope: u32-length key, nonce and ciphertext.  The cipher of *)
(* the fixture is a stand-in for AES-256-GCM with the same shape: the      *)
(* ciphertext is as long as the plaintext plus a 16-byte tag.              *)
FxKey == FxFill(32, 7)

FxNonce == FxFill(12, 9)

FxSeal(key, nonce, plain) ==
    [i \in 1..Len(plain) |-> (plain[i] + key[1] + nonce[1]) % 256] \o FxFill(16, 0)

FxKypr(ver, body) ==
    MAGIC \o FxStr(Banner) \o FxU64(ver) \o EncryptionTag("KeyPair")
    \o FxStr(FxKey) \o FxStr(FxNonce) \o FxStr(FxSeal(FxKey, FxNonce, body \o MAGIC))

FramingFiles ==
    {FxFile(MAGIC, Banner, ver, EncryptionTag("None"), FxEmptyBody(name, FxOverrides[ov]), close) :
        ver \in {22, 23}, name \in {NameM, CoreBuiltins},
        ov \in {"absent", "empty", "one"}, close \in {MAGIC, BadMagicBytes}}
    \cup {FxFile(MAGIC, Banner, 22, enc, FxEmptyBody(NameM, <<>>), MAGIC) :
            enc \in {EncryptionTag("SimplePassphrase"), <<0, 0, 0, 0>>}}
    \cup {FxKypr(ver, FxEmptyBody(NameM, <<>>)) : ver \in {22}}
    \cup {FxFile(BadMagicBytes, Banner, 22, EncryptionTag("None"), FxEmptyBody(NameM, <<>>), MAGIC),
          FxFile(MAGIC, NameBase, 22, EncryptionTag("None"), FxEmptyBody(NameM, <<>>), MAGIC),
          FxPlain(22, FxBody(<<>>, Some(NameBase), 0, <<>>, 0, <<>>, <<>>, 0, <<>>)),
          FxPlain(22, FxBody(<<>>, None, 0, <<>>, 0, <<>>, <<>>, 0, <<>>)),
          FxPlain(22, FxEmptyBody(NameM, <<>>)) \o <<0, 0>>,
          SubSeq(FxPlain(22, FxEmptyBody(NameM, <<>>)), 1, 70),
          <<>>}

(* One sampler, in the layout of a schema, with a given register and       *)
(* sampler-type byte: register | access | precision | unordered access |   *)
(* type | format | u32 | [u8] | [state] | default texture | [string] |     *)
(* custom type info.                                                       *)
FxSampler(layout, reg, typeByte) ==
    (IF layout = "V1_18_30" THEN <<reg % 256>> ELSE LEBytes(reg, 2))
    \o <<1, 2, 0, typeByte>>
    \o FxStr(<<102>>)
    \o <<4, 3, 2, 1>>
    \o (IF layout = "V1_18_30" THEN <<>> ELSE <<8>>)
    \o (IF layout = "V1_21_20" THEN <<1, 6>> ELSE <<>>)
    \o <<1>> \o FxStr(<<100>>)
    \o (IF layout \in {"V1_20_80", "V1_21_20"} THEN <<1>> \o FxStr(<<117>>) ELSE <<>>)
    \o <<1>> \o FxStr(<<99>>) \o <<16, 0, 0, 0>>

FxSamplerFile(layout, entries) ==
    FxPlain(22, FxBody(NameM, None, Len(entries),
                       FxConcat([i \in 1..Len(entries) |->
                                    FxStr(<<115, 48 + i>>)
                                    \o FxSampler(layout, entries[i][1], entries[i][2])]),
                       0, <<>>, <<>>, 0, <<>>))

SamplerLayouts == <<"V1_21_20", "V1_19_60", "V1_20_80", "V1_18_30">>

SamplerFiles ==
    {FxSamplerFile(SamplerLayouts[l], <<<<3, b>>>>) :
        l \in 1..LayoutsPerByte, b \in 0..11}
    \cup {FxSamplerFile(layout, <<<<3, 5>>>>) : layout \in {"V1_20_80", "V1_18_30"}}
    \cup {FxSamplerFile("V1_19_60", <<<<300, 0>>>>),
          FxSamplerFile("V1_19_60", <<<<3, 255>>>>),
          FxSamplerFile("V1_19_60", <<<<3, 0>>, <<4, 6>>>>),
          FxSamplerFile("V1_21_20", <<<<300, 5>>>>)}

(* One property field: u16 type | u32 count | has-data | payload.  The     *)
(* External field comes with count and has-data byte (what the decoder     *)
(* reads) and bare (what the emitter writes).                              *)
FxProp(kind) ==
    CASE kind = "Vec4d" -> <<2, 0>> \o <<1, 0, 0, 0>> \o <<1>> \o FxFill(16, 170)
      [] kind = "Vec4n" -> <<2, 0>> \o <<2, 0, 0, 0>> \o <<0>>
      [] kind = "Mat3d" -> <<3, 0>> \o <<1, 0, 0, 0>> \o <<1>> \o FxFill(36, 187)
      [] kind = "Mat4d" -> <<4, 0>> \o <<1, 0, 0, 0>> \o <<2>> \o FxFill(64, 204)
      [] kind = "ExtC0" -> <<5, 0>> \o <<1, 0, 0, 0>> \o <<0>>
      [] kind = "ExtC1" -> <<5, 0>> \o <<1, 0, 0, 0>> \o <<1>>
      [] kind = "ExtBare" -> <<5, 0>>
      [] kind = "Vec4short" -> <<2, 0>> \o <<1, 0, 0, 0>> \o <<1>> \o FxFill(4, 170)
      [] kind = "Bad" -> <<6, 0>> \o <<1, 0, 0, 0>> \o <<0>>

FxPropFile(kinds) ==
    FxPlain(22, FxBody(NameM, None, 0, <<>>, Len(kinds),
                       FxConcat([i \in 1..Len(kinds) |->
                                    FxStr(<<112, 48 + i>>) \o FxProp(kinds[i])]),
                       <<>>, 0, <<>>))

RECURSIVE SeqsUpTo(_, _)
SeqsUpTo(S, n) ==
    IF n = 0 THEN {<<>>}
    ELSE LET shorter == SeqsUpTo(S, n - 1)
         IN  shorter \cup {Append(q, x) : q \in shorter, x \in S}

PropertyFiles ==
    {FxPropFile(<<k>>) :
        k \in {"Vec4d", "Vec4n", "Mat3d", "Mat4d", "ExtC0", "ExtC1", "ExtBare",
               "Vec4short", "Bad"}}
    \cup {FxPropFile(ks) : ks \in SeqsUpTo({"Vec4n", "ExtC0"}, MaxProps) \ {<<>>}}

(* Variants, by what is wrong with them.                                   *)
FxShaderInput(typeByte) == <<typeByte, 7, 1, 0, 1, 2, 1, 3>>

FxShaderCode(typeByte, declared, data) ==
    <<1, 0>> \o FxStr(<<97>>) \o FxShaderInput(typeByte)
    \o <<1, 2, 3, 4, 5, 6, 7, 8>>
    \o LEBytes(declared, 4) \o data

FxVariant(kind) ==
    <<1>> \o <<1, 0>> \o <<1, 0>>
    \o FxStr(<<102>>) \o FxStr(<<49>>)
    \o FxStr(<<118>>) \o FxStr(<<112>>)
    \o <<(IF kind = "badstage" THEN 9 ELSE 0), 8>>
    \o FxShaderCode(IF kind = "badinput" THEN 13 ELSE 3,
                    IF kind = "shortcode" THEN 200 ELSE 2,
                    <<222, 173>>)

(* bitset | fallback | optional blend mode | default flags | variants      *)
FxPass(bitset, blend, variants) ==
    FxStr(bitset) \o FxStr(<<>>)
    \o (IF blend = None THEN <<0>> ELSE <<1>> \o LEBytes(blend[1], 2))
    \o <<1, 0>> \o FxStr(<<107>>) \o FxStr(<<120>>)
    \o LEBytes(Len(variants), 2)
    \o FxConcat([i \in 1..Len(variants) |-> FxVariant(variants[i])])

FxPassFile(passes) ==
    FxPlain(22, FxBody(NameM, None, 0, <<>>, 0, <<>>, <<>>, Len(passes),
                       FxConcat([i \in 1..Len(passes) |->
                                    FxStr(<<113, 48 + i>>) \o passes[i]])))

(* A pass in the layout of the oldest schema, as the format describes it:  *)
(* a bitset string of 15 bytes (the byte under the cursor is 15), or one   *)
(* byte that is not 15 and no bitset; then the fallback string, no blend   *)
(* mode, no default flag, no variant.                                      *)
FxPass18(present) ==
    (IF present THEN FxStr(FxFill(15, 98)) ELSE <<0>>)
    \o FxStr(<<102>>) \o <<0>> \o <<0, 0>> \o <<0, 0>>

(* Passes on their own, to be decoded at a schema.                         *)
PassBlobs ==
    {FxPass18(TRUE), FxPass18(FALSE),
     FxPass(<<98>>, None, <<>>), FxPass(<<98>>, Some(2), <<"full">>)}

PassFiles ==
    {FxPassFile(<<FxPass(<<98>>, None, <<>>)>>),
     FxPassFile(<<FxPass(<<>>, None, <<>>)>>),
     FxPassFile(<<FxPass(<<98>>, Some(2), <<"full">>)>>),
     FxPassFile(<<FxPass(<<98>>, Some(12), <<>>)>>),
     FxPassFile(<<FxPass(<<98>>, None, <<"full", "badinput">>)>>),
     FxPassFile(<<FxPass(<<98>>, None, <<"badstage">>)>>),
     FxPassFile(<<FxPass(<<98>>, None, <<"shortcode">>)>>),
     FxPassFile(<<FxPass(<<98>>, None, <<>>), FxPass(<<99>>, Some(11), <<>>)>>),
     FxPassFile(<<FxPass18(TRUE)>>),
     FxPassFile(<<FxPass18(FALSE)>>)}

(* A file that reads differently under different schemas.  Under the       *)
(* schemas without a sampler-state byte its sampler has a default texture  *)
(* of six NUL characters and is followed by no property field and one pass *)
(* with an empty bitset.  Under 1.21.20 the default-texture flag and the   *)
(* length of the string are the sampler-state flag, the state and three    *)
(* absent options, and the six characters are the two counts, both zero,   *)
(* and the start of the closing u64.                                       *)
FxSchemaDependentFile ==
    FxPlain(22,
        FxStr(NameM) \o <<0>>
        \o <<1>> \o FxStr(<<115>>)
        \o LEBytes(3, 2) \o <<1, 2, 0, 0>> \o FxStr(<<102>>) \o <<4, 3, 2, 1>> \o <<8>>
        \o <<1>> \o FxStr(FxFill(6, 0))
        \o <<0>>
        \o <<0, 0>>
        \o <<1, 0>> \o FxStr(<<113>>) \o FxStr(<<>>) \o FxStr(<<>>)
        \o <<0>> \o <<0, 0>> \o <<0, 0>>)

(* The file of one pass with a full variant, cut two bytes into the length *)
(* of the stage name of the variant's platform/stage key.                  *)
FxTruncatedKey ==
    LET file == FxPassFile(<<FxPass(<<98>>, Some(2), <<"full">>)>>)
    IN  SubSeq(file, 1, Len(file) - 47)

Inputs ==
    FramingFiles \cup SamplerFiles \cup PropertyFiles \cup PassFiles
    \cup {FxSchemaDependentFile, FxTruncatedKey}

(* The tags handed to the enumerations: every symbol, to be written, and   *)
(* integers from 0 to MaxTagByte and 255, to be read.                      *)
MaxTagByte == 11

Elements(enum) == {enum[i] : i \in 1..Len(enum)}

NoTag == [enum |-> "", sym |-> "", bytes |-> <<>>]

SymbolTags ==
    UNION {{[enum |-> e, sym |-> x, bytes |-> <<>>] : x \in Elements(Enumerations[e])} :
              e \in DOMAIN Enumerations}

RawBytes(enum) ==
    CASE enum \in {"BlendMode", "PropertyType", "Attribute"} ->
             {<<b, c>> : b \in 0..MaxTagByte, c \in {0, 1}}
      [] enum = "EncryptionVariant" ->
             {EncryptionTag(e) : e \in Elements(EncryptionVariant)} \cup {<<0, 0, 0, 0>>}
      [] OTHER -> {<<b>> : b \in (0..MaxTagByte) \cup {255}}

RawTags ==
    UNION {{[enum |-> e, sym |-> "", bytes |-> bs] : bs \in RawBytes(e)} :
              e \in DOMAIN Enumerations}

-----------------------------------------------------------------------------
(* The embedded bgfx shader                                                *)

(* `gread` without a context hands the type its default context; for an    *)
(* integer that is the byte order of the machine the build targets.        *)
Endian == {"Little", "Big"}

gread_native(buf, off, w, native) ==
    LET r == gread_raw(buf, off, w)
    IN  IF ~r.ok THEN r
        ELSE IF native = "Little" THEN Ok(LESum(r.val), r.off)
        ELSE Ok(LESum([i \in 1..w |-> r.val[w + 1 - i]]), r.off)

RECURSIVE Uniform_read(_, _, _, _)
Uniform_read(buf, st, native, at) ==
    IF ~st.ok \/ at > 6 THEN st
    ELSE Uniform_read(buf,
        CASE at = 1 -> Field(st, "str_len", gread_int(buf, st.off, 1))
          [] at = 2 -> Field(st, "name", gread_str(buf, st.off, st.val.str_len))
          [] at = 3 -> Field(st, "utype", gread_int(buf, st.off, 1))
          [] at = 4 -> Field(st, "num", gread_int(buf, st.off, 1))
          [] at = 5 -> Field(st, "reg_index", gread_int(buf, st.off, 2))
          [] at = 6 -> Field(st, "reg_count", gread_int(buf, st.off, 2)),
        native, at + 1)

(* `Ok((Self { name, utype, num, reg_index, reg_count }, offset))`         *)
Uniform_Self(st) ==
    IF ~st.ok THEN st
    ELSE Ok([name |-> st.val.name, utype |-> st.val.utype, num |-> st.val.num,
             reg_index |-> st.val.reg_index, reg_count |-> st.val.reg_count],
            st.off)

Uniform_try_from_ctx(buf, off, native) ==
    IF off >= Len(buf) THEN Err("BadOffset")
    ELSE Uniform_Self(Uniform_read(buf, Ok(<<>>, off), native, 1))

Uniform_write(self) ==
    WCat(<<write_len(Len(self.name), 1),
           WOk(self.name),
           WOk(<<self.utype, self.num>>),
           WOk(LEBytes(self.reg_index, 2)),
           WOk(LEBytes(self.reg_count, 2))>>)

(* `(0..uniform_count).flat_map(|_| input.gread(offset)).collect()`        *)
RECURSIVE read_uniforms(_, _, _, _)
read_uniforms(buf, st, n, native) ==
    IF ~st.ok \/ n = 0 THEN st
    ELSE read_uniforms(buf, Collect(st, Uniform_try_from_ctx(buf, st.off, native)),
                       n - 1, native)

(* `(0..attr_count).map(|_| input.gread(offset)).collect()` into a Result: *)
(* the first failure is the result.                                        *)
RECURSIVE read_attributes(_, _, _, _)
read_attributes(buf, st, n, native) ==
    IF ~st.ok \/ n = 0 THEN st
    ELSE LET r == gread_native(buf, st.off, 2, native)
         IN  read_attributes(buf,
                             IF r.ok THEN Ok(Append(st.val, r.val), r.off) ELSE r,
                             n - 1, native)

RECURSIVE BgfxShader_read(_, _, _, _)
BgfxShader_read(buf, st, native, at) ==
    IF ~st.ok \/ at > 10 THEN st
    ELSE BgfxShader_read(buf,
        CASE at = 1 -> Field(st, "magic", gread_raw(buf, st.off, 4))
          [] at = 2 -> Field(st, "hash", gread_raw(buf, st.off, 4))
          [] at = 3 -> Field(st, "uniform_count", gread_int(buf, st.off, 2))
          [] at = 4 -> Field(st, "uniforms",
                 read_uniforms(buf, Ok(<<>>, st.off), st.val.uniform_count, native))
          [] at = 5 -> Field(st, "code_len", gread_int(buf, st.off, 4))
          [] at = 6 -> Field(st, "code", gread_raw(buf, st.off, st.val.code_len))
          [] at = 7 -> Field(st, "dumbbyte", gread_int(buf, st.off, 1))
          [] at = 8 -> Field(st, "attr_count",
                 LET r == gread_int(buf, st.off, 1)
                 IN  IF r.ok THEN r ELSE Ok(0, st.off))
          [] at = 9 -> Field(st, "attributes",
                 IF st.val.attr_count # 0
                 THEN SomeOf(read_attributes(buf, Ok(<<>>, st.off),
                                             st.val.attr_count, native))
                 ELSE Ok(None, st.off))
          [] at = 10 -> Field(st, "size",
                 IF st.val.attr_count # 0
                 THEN SomeOf(gread_native(buf, st.off, 2, native))
                 ELSE Ok(None, st.off)),
        native, at + 1)

(* `Ok((Self { magic, hash, uniforms, code, attributes, size }, *offset))` *)
BgfxShader_Self(st) ==
    IF ~st.ok THEN st
    ELSE Ok([magic |-> st.val.magic, hash |-> st.val.hash,
             uniforms |-> st.val.uniforms, code |-> st.val.code,
             attributes |-> st.val.attributes, size |-> st.val.size], st.off)

BgfxShader_try_from_ctx(buf, off, native) ==
    IF off >= Len(buf) THEN Err("BadOffset")
    ELSE BgfxShader_Self(BgfxShader_read(buf, Ok(<<>>, off), native, 1))

write_uniforms(uniforms) ==
    WCat([i \in 1..Len(uniforms) |-> Uniform_write(uniforms[i])])

(* `attrs.len() as u8`, each attribute, and the size if there is one.      *)
write_attributes(attrs, size) ==
    <<Len(attrs) % 256>>
    \o FxConcat([i \in 1..Len(attrs) |-> LEBytes(attrs[i], 2)])
    \o (IF size # None THEN LEBytes(size[1], 2) ELSE <<>>)

BgfxShader_write(self) ==
    WCat(<<WOk(self.magic),
           WOk(self.hash),
           write_len(Len(self.uniforms), 2),
           write_uniforms(self.uniforms),
           WOk(LEBytes(Len(self.code), 4)),
           WOk(self.code),
           WOk(<<0>>),
           IF self.attributes # None
           THEN WOk(write_attributes(self.attributes[1], self.size))
           ELSE WOk(<<>>)>>)

(* Shader blobs: magic | hash | uniforms | code | terminator | trailer.    *)
(* A uniform is whole, or is the six bytes 2 0 0 0 200 201, which fail as  *)
(* a uniform (they end before the register count) and read as a code of    *)
(* two bytes.  A trailer is absent, a count of zero, two attributes and a  *)
(* size, or cut short in the attributes or before the size.                *)
FxUniform == <<1, 117, 2, 1, 3, 0, 1, 0>>

FxTrailer(shape) ==
    CASE shape = "none" -> <<>>
      [] shape = "zero" -> <<0>>
      [] shape = "attrs" -> <<2, 1, 0, 2, 1, 16, 0>>
      [] shape = "shortattrs" -> <<2, 1, 0>>
      [] shape = "nosize" -> <<1, 1, 0>>

FxShader(uniform_count, uniforms, code, terminator, shape) ==
    <<86, 83, 72, 5>> \o <<1, 2, 3, 4>>
    \o LEBytes(uniform_count, 2) \o uniforms
    \o code \o <<terminator>> \o FxTrailer(shape)

TrailerShapes == {"none", "zero", "attrs", "shortattrs", "nosize"}

ShaderBlobs ==
    {FxShader(n, FxConcat([i \in 1..n |-> FxUniform]),
              <<2, 0, 0, 0, 200, 201>>, terminator, shape) :
        n \in 0..MaxUniforms, terminator \in {0, 7}, shape \in TrailerShapes}
    \cup {FxShader(1, <<>>, <<2, 0, 0, 0, 200, 201>>, 0, shape) :
            shape \in TrailerShapes}
    \cup {<<86, 83, 72, 5>>, <<86, 83, 72, 5, 1, 2, 3, 4, 0, 0>>}

-----------------------------------------------------------------------------
(* The program: decode a file at a schema, emit the tree at a schema,      *)
(* decode what was emitted at that schema, emit it again; and, for a tag   *)
(* on its own, write a symbol and read it back, or read an integer.        *)

NoRead == Err("not run")

NoWrite == WErr("not run", <<>>)

(* update_file: the state of one call.  `at` is the position of the loop   *)
(* in the schemas, newest first; `output` is the Vec the emissions go to;  *)
(* `out_buffer` is what the call stored through its third argument; `ret`  *)
(* is the value returned; `tried` lists the schemas handed to pread_with.  *)
NoUpdate ==
    [at |-> 1, output |-> <<>>, out_buffer |-> [set |-> FALSE, data |-> <<>>],
     ret |-> -1, tried |-> <<>>]

(* ALL_VERSIONS.into_iter().rev()                                          *)
rev(versions) == [i \in 1..Len(versions) |-> versions[Len(versions) + 1 - i]]

Init ==
    /\ build \in {"debug", "release"}
    /\ \/ input \in Inputs /\ pc = "start" /\ tag = NoTag
       \/ input \in PassBlobs /\ pc = "pass" /\ tag = NoTag
       \/ input \in ShaderBlobs /\ pc = "shader" /\ tag = NoTag
       \/ input = <<>> /\ pc = "tag" /\ tag \in SymbolTags \cup RawTags
    /\ ctx = MinecraftVersion_default
    /\ target = MinecraftVersion_default
    /\ res = NoRead
    /\ out = NoWrite
    /\ res2 = NoRead
    /\ out2 = NoWrite
    /\ tagout = NoWrite
    /\ tagres = NoRead
    /\ update = NoUpdate

(* buffer.pread_with::<CompiledMaterialDefinition>(0, version)             *)
Decode ==
    /\ pc = "start"
    /\ \E version \in MinecraftVersion :
         /\ ctx' = version
         /\ res' = CompiledMaterialDefinition_try_from_ctx(input, version)
    /\ pc' = IF res'.ok THEN "decoded" ELSE "decode_failed"
    /\ UNCHANGED <<input, build, target, out, res2, out2, tag, tagout, tagres, update>>

(* material.write(&mut output, version)                                    *)
Emit ==
    /\ pc = "decoded"
    /\ \E version \in MinecraftVersion, order \in Orders(res.val) :
         /\ target' = version
         /\ out' = CompiledMaterialDefinition_write(res.val, version, order)
    /\ pc' = IF out'.ok THEN "emitted" ELSE "emit_failed"
    /\ UNCHANGED <<input, build, ctx, res, res2, out2, tag, tagout, tagres, update>>

Redecode ==
    /\ pc = "emitted"
    /\ res2' = CompiledMaterialDefinition_try_from_ctx(out.bytes, target)
    /\ pc' = IF res2'.ok THEN "redecoded" ELSE "redecode_failed"
    /\ UNCHANGED <<input, build, ctx, res, target, out, out2, tag, tagout, tagres, update>>

Reemit ==
    /\ pc = "redecoded"
    /\ \E order \in Orders(res2.val) :
         out2' = CompiledMaterialDefinition_write(res2.val, target, order)
    /\ pc' = IF out2'.ok THEN "reemitted" ELSE "reemit_failed"
    /\ UNCHANGED <<input, build, ctx, res, target, out, res2, tag, tagout, tagres, update>>

(* The write side of an enumeration, for a symbol at a schema.             *)
TagWrite ==
    /\ pc = "tag" /\ tag.sym # ""
    /\ \E version \in MinecraftVersion :
         /\ target' = version
         /\ tagout' = Tag_write(tag.enum, tag.sym, version)
    /\ pc' = IF tagout'.ok THEN "tag_written" ELSE "tag_refused"
    /\ UNCHANGED <<input, build, ctx, res, out, res2, out2, tag, tagres, update>>

(* The read side, on what was written, at the schema it was written at.    *)
TagReread ==
    /\ pc = "tag_written"
    /\ tagres' = Tag_try_from_ctx(tag.enum, tagout.bytes, target)
    /\ pc' = IF tagres'.ok THEN "tag_reread" ELSE "tag_reread_failed"
    /\ UNCHANGED <<input, build, ctx, res, target, out, res2, out2, tag, tagout, update>>

(* The read side, on an integer of a file, at a schema.                    *)
TagRead ==
    /\ pc = "tag" /\ tag.sym = ""
    /\ \E version \in MinecraftVersion :
         /\ ctx' = version
         /\ tagres' = Tag_try_from_ctx(tag.enum, tag.bytes, version)
    /\ pc' = IF tagres'.ok THEN "tag_read" ELSE "tag_read_failed"
    /\ UNCHANGED <<input, build, res, target, out, res2, out2, tag, tagout, update>>

(* if let Ok(parsed) = slice.pread_with::<CompiledMaterialDefinition>(0,   *)
(* version): one turn of the loop up to the test.  A panic in the decode   *)
(* ends the call without a return.                                         *)
update_file_pread ==
    /\ pc \in {"start", "update_for"}
    /\ update.at <= Len(ALL_VERSIONS)
    /\ LET version == rev(ALL_VERSIONS)[update.at]
       IN  /\ ctx' = version
           /\ res' = CompiledMaterialDefinition_try_from_ctx(input, version)
           /\ update' = [update EXCEPT
                            !.tried = Append(@, version),
                            !.at = IF res'.ok \/ res'.panic THEN @ ELSE @ + 1]
    /\ pc' = IF res'.ok THEN "update_parsed"
             ELSE IF res'.panic THEN "update_aborted" ELSE "update_for"
    /\ UNCHANGED <<input, build, target, out, res2, out2, tag, tagout, tagres>>

(* parsed.write(&mut output, MinecraftVersion::V1_21_20): on an error the  *)
(* loop continues with the same Vec; otherwise the Vec is boxed, stored    *)
(* through out_buffer, and the call returns 0.                             *)
update_file_write ==
    /\ pc = "update_parsed"
    /\ target' = "V1_21_20"
    /\ \E order \in Orders(res.val) :
         out' = CompiledMaterialDefinition_write(res.val, "V1_21_20", order)
    /\ update' = IF out'.ok
                 THEN [update EXCEPT
                          !.output = @ \o out'.bytes,
                          !.out_buffer = [set |-> TRUE, data |-> update.output \o out'.bytes],
                          !.ret = 0]
                 ELSE [update EXCEPT !.output = @ \o out'.bytes, !.at = @ + 1]
    /\ pc' = IF out'.ok THEN "update_returned" ELSE "update_for"
    /\ UNCHANGED <<input, build, ctx, res, res2, out2, tag, tagout, tagres>>

(* The loop is over: -1                                                    *)
update_file_exhausted ==
    /\ pc = "update_for"
    /\ update.at > Len(ALL_VERSIONS)
    /\ update' = [update EXCEPT !.ret = -1]
    /\ pc' = "update_returned"
    /\ UNCHANGED <<input, build, ctx, res, target, out, res2, out2, tag, tagout, tagres>>

(* buffer.pread_with::<Pass>(0, version): a pass on its own.                *)
DecodePass ==
    /\ pc = "pass"
    /\ \E version \in MinecraftVersion :
         /\ ctx' = version
         /\ res' = Pass_try_from_ctx(input, 0, version)
    /\ pc' = IF res'.ok THEN "pass_decoded" ELSE "pass_decode_failed"
    /\ UNCHANGED <<input, build, target, out, res2, out2, tag, tagout, tagres, update>>

(* blob.pread::<BgfxShader>(0), on a machine of either byte order         *)
DecodeShader ==
    /\ pc = "shader"
    /\ \E native \in Endian :
         /\ ctx' = native
         /\ res' = BgfxShader_try_from_ctx(input, 0, native)
    /\ pc' = IF res'.ok THEN "shader_decoded" ELSE "shader_decode_failed"
    /\ UNCHANGED <<input, build, target, out, res2, out2, tag, tagout, tagres, update>>

(* shader.write(&mut output)                                               *)
EmitShader ==
    /\ pc = "shader_decoded"
    /\ out' = BgfxShader_write(res.val)
    /\ pc' = IF out'.ok THEN "shader_emitted" ELSE "shader_emit_failed"
    /\ UNCHANGED <<input, build, ctx, res, target, res2, out2, tag, tagout, tagres, update>>

Next ==
    \/ Decode \/ Emit \/ Redecode \/ Reemit
    \/ TagWrite \/ TagReread \/ TagRead
    \/ update_file_pread \/ update_file_write \/ update_file_exhausted
    \/ DecodePass \/ DecodeShader \/ EmitShader

Spec == Init /\ [][Next]_vars

-----------------------------------------------------------------------------
(* Properties                                                              *)

(* The schemas from 1.21.110 on.                                           *)
OverrideSchemas == {"V1_21_110", "V26_0_24"}

(* C1: round trip at the same schema.  Whenever a file decoded at a schema *)
(* and the decoded tree was emitted at that same schema, the emission      *)
(* succeeded and the bytes emitted are the bytes of the file.              *)
C1_RoundTripSameSchema ==
    (pc \in {"emitted", "emit_failed"} /\ target = ctx)
        => (out.ok /\ out.bytes = input)

(* C1: a file with one External property field, decoded and emitted at the *)
(* same schema, comes out five bytes shorter than it went in.              *)
C1_Witness ==
    /\ pc = "emitted" /\ target = ctx
    /\ input = FxPropFile(<<"ExtC0">>)
    /\ Len(out.bytes) = Len(input) - 5

(* C2: idempotent re-emit.  What was emitted at a target schema decodes at *)
(* that schema without error, and the second tree emitted at that schema   *)
(* is byte for byte what was emitted first.                                *)
C2_IdempotentReemit ==
    /\ pc # "redecode_failed"
    /\ pc # "reemit_failed"
    /\ pc = "reemitted" => out2.bytes = out.bytes

(* C2: the emission of a file with one External property field does not    *)
(* decode at the schema it was emitted at.                                 *)
C2_Witness ==
    /\ pc = "redecode_failed"
    /\ input = FxPropFile(<<"ExtC0">>)
    /\ ~res2.panic

(* C3: the closing magic.  Whenever the u64 read after the pass table is   *)
(* not 0x0A11DA1A, decoding fails and returns no tree.                     *)
C3_ClosingMagicChecked ==
    pc \in {"decoded", "decode_failed"}
        => LET st == CompiledMaterialDefinition_read(input, Ok(<<>>, 0), ctx, 1)
           IN  (st.ok /\ st.val.end # MAGIC) => ~res.ok

(* C3: a file that ends in another u64 than the magic decodes to a tree.   *)
C3_Witness ==
    /\ pc = "decoded"
    /\ input = FxFile(MAGIC, Banner, 22, EncryptionTag("None"),
                      FxEmptyBody(NameM, <<>>), BadMagicBytes)
    /\ res.ok

(* C4: the SamplerType shift law on emit.  At a schema other than 1.21.20  *)
(* a sampler type after SamplerCubeArray in declaration order is written   *)
(* as its ordinal minus 1; at 1.21.20 every type is written as its         *)
(* ordinal; a type before SamplerCubeArray is written as its ordinal at    *)
(* every schema.                                                           *)
C4_ShiftLawOnEmit ==
    (pc \in {"tag_written", "tag_refused"} /\ tag.enum = "SamplerType")
        => LET ordinal == Ordinal(SamplerType, tag.sym)
           IN  IF target # "V1_21_20" /\ ordinal > 5
               THEN tagout.ok /\ tagout.bytes = <<ordinal - 1>>
               ELSE IF target # "V1_21_20" /\ ordinal = 5
               THEN TRUE
               ELSE tagout.ok /\ tagout.bytes = <<ordinal>>

(* C4: TypeStructuredBuffer, of ordinal 6, is written as 6 at 1.20.80.     *)
C4_Witness ==
    /\ pc = "tag_written" /\ tag.enum = "SamplerType"
    /\ tag.sym = "TypeStructuredBuffer" /\ target = "V1_20_80"
    /\ tagout.bytes = <<6>>

C6_TagTotality ==
    pc \in {"tag_reread", "tag_reread_failed"}
        => (tagres.ok /\ tagres.val = tag.sym)

(* C6: TypeStructuredBuffer written at 1.19.60 reads back as               *)
(* TypeRawBuffer.                                                          *)
C6_Witness ==
    /\ pc = "tag_reread" /\ tag.enum = "SamplerType"
    /\ tag.sym = "TypeStructuredBuffer" /\ target = "V1_19_60"
    /\ tagres.val = "TypeRawBuffer"

(* C7: override-section gating.  At a schema from 1.21.110 on, a file      *)
(* whose name is not Core/Builtins and that holds the override table       *)
(* between its property fields and its passes decodes, the table's bytes   *)
(* consumed with the rest; in every other case a file without the table    *)
(* decodes and all its bytes are consumed.                                 *)
C7_OverrideGating ==
    pc \in {"decoded", "decode_failed"}
        => \A ver \in {22, 23}, name \in {NameM, CoreBuiltins},
              ov \in {"absent", "empty", "one"} :
              (/\ input = FxPlain(ver, FxEmptyBody(name, FxOverrides[ov]))
               /\ (ov # "absent") <=> (ctx \in OverrideSchemas /\ name # CoreBuiltins))
                  => (res.ok /\ res.off = Len(input))

(* C7: at 1.21.110 a file with an empty override table decodes, the count  *)
(* of the table taken for the count of the passes and the last two bytes   *)
(* of the file not consumed.                                               *)
C7_Witness ==
    /\ pc = "decoded" /\ ctx = "V1_21_110"
    /\ input = FxPlain(22, FxEmptyBody(NameM, FxOverrides["empty"]))
    /\ res.off = Len(input) - 2

(* C8: PropertyField count symmetry.  For a file whose tables hold only    *)
(* External property fields, decoding and emitting at the same schema      *)
(* consumes and produces the same number of bytes: the External field has  *)
(* one wire layout.                                                        *)
C8_ExternalCountSymmetry ==
    (/\ pc = "emitted" /\ target = ctx
     /\ res.val.sampler_definitions = <<>> /\ res.val.passes = <<>>
     /\ res.val.property_fields # <<>>
     /\ \A i \in 1..Len(res.val.property_fields) :
            res.val.property_fields[i][2].field_type = "External")
        => Len(out.bytes) = res.off

(* C8: decoding consumed the four count bytes (and a has-data byte) of an  *)
(* External field, kept the count in the tree, and emitting wrote the type *)
(* tag only.                                                               *)
C8_Witness ==
    /\ pc = "emitted" /\ target = ctx
    /\ input = FxPropFile(<<"ExtC1">>)
    /\ res.val.property_fields[1][2].field_type = "External"
    /\ res.val.property_fields[1][2].num = <<1, 0, 0, 0>>
    /\ res.off = Len(input)
    /\ Len(out.bytes) = res.off - 5

(* C9: the KYPR envelope.  A file whose encryption tag is KYPR, followed   *)
(* by key, nonce and ciphertext, decodes, and to the tree the same body    *)
(* decodes to under the NONE tag.                                          *)
C9_KyprEnvelope ==
    (pc \in {"decoded", "decode_failed"}
        /\ input = FxKypr(22, FxEmptyBody(NameM, <<>>)))
        => /\ res.ok
           /\ res.val.name = NameM
           /\ res.val.sampler_definitions = <<>>
           /\ res.val.property_fields = <<>>
           /\ res.val.passes = <<>>

(* C9: the KYPR file is refused as encrypted at every schema.              *)
C9_Witness ==
    /\ pc = "decode_failed"
    /\ input = FxKypr(22, FxEmptyBody(NameM, <<>>))
    /\ res.err = "BadInput: Not decrypting encrypted material"

(* C10: the version gate.  When the version field of the file is 23 and    *)
(* the schema asked for is older than 26.0.24, decoding fails.             *)
C10_VersionGate ==
    pc = "decoded" => ~(res.val.version = LEBytes(23, 8) /\ ctx # "V26_0_24")

(* C10: a file of version 23 decodes to a tree at 1.20.80.                 *)
C10_Witness ==
    /\ pc = "decoded" /\ ctx = "V1_20_80"
    /\ input = FxPlain(23, FxEmptyBody(NameM, <<>>))
    /\ res.ok /\ res.val.version = LEBytes(23, 8)


(* The schema version field of a file: the u64 after the opening magic and *)
(* the banner string.                                                      *)
VersionField(bytes) == SubSeq(bytes, 52, 59)

(* C11: version mapping on emit.  Whatever version the tree holds, the     *)
(* version field written is 22 when the target schema is 1.21.110 or       *)
(* older and 23 when the target schema is 26.0.24.                         *)
C11_VersionMappingOnEmit ==
    pc = "emitted"
        => VersionField(out.bytes) = LEBytes(IF target = "V26_0_24" THEN 23 ELSE 22, 8)

(* C11: a tree holding version 23 is emitted at 1.20.80 with the version   *)
(* field 23.                                                               *)
C11_Witness ==
    /\ pc = "emitted" /\ target = "V1_20_80"
    /\ res.val.version = LEBytes(23, 8)
    /\ VersionField(out.bytes) = LEBytes(23, 8)


(* C12: auto-detect ordering.  The schemas handed to the decoder are the   *)
(* known schemas from the newest on, in order, and every schema but the    *)
(* last one tried is one under which the input failed to decode: the       *)
(* driver moves on only after a decode failure, and tries nothing older    *)
(* than the first schema under which the input decodes.                    *)
C12_AutoDetectOrdering ==
    \A i \in 1..Len(update.tried) :
        /\ update.tried[i] = rev(ALL_VERSIONS)[i]
        /\ i < Len(update.tried)
              => ~CompiledMaterialDefinition_try_from_ctx(input, update.tried[i]).ok

(* C12: the file of one pass with an empty bitset decodes at 26.0.24, and  *)
(* the driver goes on to decode it at 1.21.110.                            *)
C12_Witness ==
    /\ input = FxPassFile(<<FxPass(<<>>, None, <<>>)>>)
    /\ update.tried = <<"V26_0_24", "V1_21_110">>
    /\ CompiledMaterialDefinition_try_from_ctx(input, "V26_0_24").ok


(* The first schema, from the newest on, under which a buffer decodes; 0   *)
(* when there is none.                                                     *)
FirstDecoding(buf) ==
    LET decoding == {i \in 1..Len(ALL_VERSIONS) :
                        CompiledMaterialDefinition_try_from_ctx(buf, rev(ALL_VERSIONS)[i]).ok}
    IN  IF decoding = {} THEN 0
        ELSE CHOOSE i \in decoding : \A j \in decoding : i <= j

(* C13: the result of update_file.  It returns 0 exactly when auto-detect  *)
(* obtains a tree and emitting that tree at 1.21.20 succeeds, and then the *)
(* buffer stored through `out` holds exactly the bytes of that emission;   *)
(* otherwise it returns -1.                                                *)
C13_UpdateFileResult ==
    pc = "update_returned"
        => LET first == FirstDecoding(input)
               tree == CompiledMaterialDefinition_try_from_ctx(input, rev(ALL_VERSIONS)[first]).val
               emitted == first # 0
                          /\ \E order \in Orders(tree) :
                                CompiledMaterialDefinition_write(tree, "V1_21_20", order).ok
           IN  /\ update.ret = (IF emitted THEN 0 ELSE -1)
               /\ update.ret = 0
                     => /\ update.out_buffer.set
                        /\ \E order \in Orders(tree) :
                              update.out_buffer.data
                                  = CompiledMaterialDefinition_write(tree, "V1_21_20", order).bytes

(* C13: update_file returns 0 for the schema-dependent file after two      *)
(* failed emissions, and the buffer it stores is longer than the emission  *)
(* that succeeded.                                                         *)
C13_Witness ==
    /\ pc = "update_returned" /\ input = FxSchemaDependentFile
    /\ update.ret = 0 /\ update.tried = <<"V26_0_24", "V1_21_110", "V1_21_20">>
    /\ out.ok /\ Len(update.out_buffer.data) > Len(out.bytes)


(* The variant lists of the pass files: the kinds of the variants a pass   *)
(* declares, "full" being the one kind that decodes.                       *)
VariantLists == {<<>>, <<"full">>, <<"full", "badinput">>}

(* C14: strict propagation.  A pass that declares n variants decodes to a  *)
(* pass of n variants, and when one of the variants fails to decode (here  *)
(* on the tag of a shader input) the decode of the file fails.             *)
C14_StrictPropagation ==
    \A vs \in VariantLists :
        (pc \in {"decoded", "decode_failed"}
         /\ input = FxPassFile(<<FxPass(<<98>>, None, vs)>>))
            => /\ res.ok => Len(res.val.passes[1][2].variants) = Len(vs)
               /\ (\E i \in 1..Len(vs) : vs[i] # "full") => ~res.ok

(* C14: the pass that declares two variants, the second with an invalid    *)
(* shader-input tag, decodes to a pass of one variant.                     *)
C14_Witness ==
    /\ pc = "decoded"
    /\ input = FxPassFile(<<FxPass(<<98>>, None, <<"full", "badinput">>)>>)
    /\ res.ok /\ Len(res.val.passes[1][2].variants) = 1


(* C15: no partial output on error.  When the emit of a tree returns an    *)
(* error, the sink holds no byte written by that call.                     *)
C15_NoPartialOutput ==
    pc = "emit_failed" => out.bytes = <<>>

(* C15: the emit of a tree with a pass of empty bitset fails after the     *)
(* frame, the counts and the name of the pass have reached the sink.       *)
C15_Witness ==
    /\ pc = "emit_failed"
    /\ input = FxPassFile(<<FxPass(<<>>, None, <<>>)>>)
    /\ out.err = "Compat: Bitset string is empty"
    /\ SubSeq(out.bytes, 1, 8) = MAGIC
    /\ Len(out.bytes) = Len(input) - Len(FxPass(<<>>, None, <<>>)) - Len(MAGIC)


(* Files that end before a declared field is complete: in the payload of   *)
(* a Vec4 property field, in the body of a shader code, in a               *)
(* platform/stage key, in the frame, and the empty file.                   *)
TruncatedFiles ==
    {FxPropFile(<<"Vec4short">>),
     FxPassFile(<<FxPass(<<98>>, None, <<"shortcode">>)>>),
     FxTruncatedKey,
     SubSeq(FxPlain(22, FxEmptyBody(NameM, <<>>)), 1, 70),
     <<>>}

(* C16: truncated input is an error value.  The decode of a file that ends *)
(* before a declared field is complete returns an error: it neither        *)
(* panics nor returns a tree.                                              *)
C16_TruncationIsAnError ==
    (pc \in {"decoded", "decode_failed"} /\ input \in TruncatedFiles)
        => ~res.ok /\ ~res.panic

(* C16: the decode of the file cut inside the platform/stage key panics.   *)
C16_Witness ==
    /\ pc = "decode_failed" /\ input = FxTruncatedKey
    /\ res.panic


(* C17: empty bitset refusal.  At every target schema the emit of a pass   *)
(* whose bitset is empty returns the Compat error, and the emit of a pass  *)
(* whose bitset is not empty does not; the emit of a tree that holds a     *)
(* pass with an empty bitset fails.                                        *)
C17_EmptyBitsetRefusal ==
    pc \in {"emitted", "emit_failed"}
        => /\ \A i \in 1..Len(res.val.passes), version \in MinecraftVersion :
                LET pass == res.val.passes[i][2]
                    written == Pass_write(pass, version)
                IN  IF pass.bitset = <<>>
                    THEN ~written.ok /\ written.err = "Compat: Bitset string is empty"
                    ELSE written.ok
           /\ (\E i \in 1..Len(res.val.passes) : res.val.passes[i][2].bitset = <<>>)
                 => ~out.ok

(* C17: the emit at 1.21.20 of the tree with one pass of empty bitset is   *)
(* refused.                                                                *)
C17_Witness ==
    /\ pc = "emit_failed" /\ target = "V1_21_20"
    /\ input = FxPassFile(<<FxPass(<<>>, None, <<>>)>>)
    /\ res.val.passes[1][2].bitset = <<>>
    /\ out.err = "Compat: Bitset string is empty"


(* The samplers of a tree that are of type SamplerCubeArray.               *)
CubeArrays(tree) ==
    {i \in 1..Len(tree.sampler_definitions) :
        tree.sampler_definitions[i][2].sampler_type = "TypeSamplerCubeArray"}

(* The sampler-type byte in what SamplerDefinition::write produces at a    *)
(* schema with a u16 register.                                             *)
TypeByte(written) == written.bytes[6]

C19_OpeningFrame ==
    pc \in {"decoded", "decode_failed"}
        => LET magic == gread_raw(input, 0, 8)
               banner == read_string(input, 8)
           IN  /\ (magic.ok /\ magic.val # MAGIC)
                     => /\ res = Err("BadInput: Invalid magic")
                        /\ res = CompiledMaterialDefinition_try_from_ctx(SubSeq(input, 1, 8), ctx)
               /\ (magic.ok /\ magic.val = MAGIC /\ banner.ok /\ banner.val # Banner)
                     => /\ res = Err("BadInput: Invalid definition")
                        /\ res = CompiledMaterialDefinition_try_from_ctx(
                                     SubSeq(input, 1, banner.off), ctx)

(* C19: the file whose banner is another string is rejected with "Invalid  *)
(* definition" at 1.21.20.                                                 *)
C19_Witness ==
    /\ pc = "decode_failed" /\ ctx = "V1_21_20"
    /\ input = FxFile(MAGIC, NameBase, 22, EncryptionTag("None"), FxEmptyBody(NameM, <<>>), MAGIC)
    /\ res.err = "BadInput: Invalid definition"

(* C20: SMPL rejection.  A file whose encryption tag is SMPL fails to      *)
(* decode with the error of an unsupported encryption, and nothing after   *)
(* the tag is read: the input cut after the tag fails alike.               *)
C20_SmplRejection ==
    (pc \in {"decoded", "decode_failed"}
     /\ Len(input) >= 63
     /\ SubSeq(input, 1, 59) = MAGIC \o FxStr(Banner) \o VersionField(input)
     /\ SubSeq(input, 60, 63) = EncryptionTag("SimplePassphrase"))
        => /\ res = Err("BadInput: Not decrypting encrypted material")
           /\ res = CompiledMaterialDefinition_try_from_ctx(SubSeq(input, 1, 63), ctx)

(* C20: the file with the SMPL tag and a well-formed body is rejected at   *)
(* 1.19.60.                                                                *)
C20_Witness ==
    /\ pc = "decode_failed" /\ ctx = "V1_19_60"
    /\ input = FxFile(MAGIC, Banner, 22, EncryptionTag("SimplePassphrase"),
                      FxEmptyBody(NameM, <<>>), MAGIC)
    /\ res.err = "BadInput: Not decrypting encrypted material"


(* Where the one pass of a pass file starts: after the frame, the material *)
(* name, the absent parent, the three counts and the name of the pass.     *)
PassOffset == 80

(* C21: schema threading into passes.  The pass of a file decoded at a     *)
(* schema is the pass that Pass::try_from_ctx yields at that schema from   *)
(* the bytes of the pass, and the file does not decode when the pass does  *)
(* not decode at that schema.                                              *)
C21_SchemaThreading ==
    (pc \in {"decoded", "decode_failed"} /\ input \in PassFiles /\ res.ok)
        => LET pass == Pass_try_from_ctx(input, PassOffset, ctx)
           IN  pass.ok /\ res.val.passes[1][2] = pass.val

(* C21: a file decoded at 1.18.30 holds the pass that the default schema   *)
(* yields, while the bytes of the pass do not decode at 1.18.30.           *)
C21_Witness ==
    /\ pc = "decoded" /\ ctx = "V1_18_30"
    /\ input = FxPassFile(<<FxPass(<<98>>, None, <<>>)>>)
    /\ res.val.passes[1][2]
          = Pass_try_from_ctx(input, PassOffset, MinecraftVersion_default).val
    /\ ~Pass_try_from_ctx(input, PassOffset, "V1_18_30").ok


(* C22: the bitset peek of the oldest schema.  A pass decoded at 1.18.30   *)
(* from position 0: when the byte there is 15 the bitset is the string     *)
(* that starts there, otherwise the bitset is empty and the fallback       *)
(* string is read from position 1; the decode does not fail on the cursor  *)
(* arithmetic, neither by a panic nor by an offset out of the buffer.      *)
C22_BitsetPeek ==
    (pc \in {"pass_decoded", "pass_decode_failed"} /\ ctx = "V1_18_30"
     /\ input \in {FxPass18(TRUE), FxPass18(FALSE)})
        => LET bitset == IF input[1] = 15 THEN read_string(input, 0) ELSE Ok(<<>>, 1)
           IN  /\ ~res.panic /\ res.ok
               /\ res.val.bitset = bitset.val
               /\ res.val.fallback = read_string(input, bitset.off).val

(* C22: in a build without overflow checks the pass whose first byte is 15 *)
(* fails to decode at 1.18.30 with an offset out of the buffer.            *)
C22_Witness ==
    /\ pc = "pass_decode_failed" /\ ctx = "V1_18_30" /\ build = "release"
    /\ input = FxPass18(TRUE)
    /\ res.err = "BadOffset"


(* The order of iteration that is the order of insertion.                  *)
InsertionOrder(self) ==
    [samplers |-> [i \in 1..Len(self.sampler_definitions) |-> i],
     props |-> [i \in 1..Len(self.property_fields) |-> i],
     passes |-> [i \in 1..Len(self.passes) |-> i]]

(* C23: insertion order on the wire.  What an emit produces is what it     *)
(* produces when every table is written in the order in which the decode   *)
(* inserted its entries.                                                   *)
C23_InsertionOrder ==
    pc \in {"emitted", "emit_failed"}
        => out = CompiledMaterialDefinition_write(res.val, target, InsertionOrder(res.val))

(* C23: the file with the property fields p1 and p2 is emitted with p2     *)
(* before p1.                                                              *)
C23_Witness ==
    /\ pc = "emitted" /\ target = ctx
    /\ input = FxPropFile(<<"Vec4n", "Vec4n">>)
    /\ res.val.property_fields[1][1] = <<112, 49>>
    /\ SubSeq(out.bytes, 73, 78) = FxStr(<<112, 50>>)


(* The payload slot of a property field that its type uses.                *)
Payload(field) ==
    IF field.field_type = "Vec4" THEN field.vector_data ELSE field.matrix_data

(* C24: the emit layout of a property field.  For a field of any type the  *)
(* emit writes the u16 tag, the u32 count unless the type is External, one *)
(* has-data byte, and the payload when there is one.                       *)
C24_PropertyFieldEmitLayout ==
    pc \in {"emitted", "emit_failed"}
        => \A i \in 1..Len(res.val.property_fields) :
              LET field == res.val.property_fields[i][2]
                  written == PropertyField_write(field)
              IN  /\ written.ok
                  /\ written.bytes
                       = LEBytes(PropertyType_to_u16(field.field_type), 2)
                         \o (IF field.field_type # "External" THEN field.num ELSE <<>>)
                         \o <<BoolByte(Payload(field) # None)>>
                         \o (IF Payload(field) # None THEN Payload(field)[1] ELSE <<>>)

(* C24: an External property field is emitted as its tag alone.            *)
C24_Witness ==
    /\ pc = "emitted" /\ input = FxPropFile(<<"ExtC1">>)
    /\ res.val.property_fields[1][2].field_type = "External"
    /\ PropertyField_write(res.val.property_fields[1][2]).bytes = <<5, 0>>


(* The offset of the first property field of a file of PropertyFiles, and  *)
(* the number of payload bytes of each property type.                      *)
PropertyOffset == 78

PayloadSize(field_type) ==
    CASE field_type = "Vec4" -> 16
      [] field_type = "Mat3" -> 36
      [] field_type = "Mat4" -> 64
      [] field_type = "External" -> 0

(* C25: the payload of a property field.  A decoded field whose has-data   *)
(* byte is set carries the 16 bytes of a Vec4 in its vector slot, the 36   *)
(* of a Mat3 or the 64 of a Mat4 in its matrix slot, and nothing when it   *)
(* is External; the cursor moves past exactly those bytes and the emit     *)
(* writes exactly those bytes.                                             *)
C25_PayloadSizing ==
    (pc \in {"decoded", "emitted", "emit_failed"} /\ input \in PropertyFiles)
        => LET field == res.val.property_fields[1][2]
               read == PropertyField_try_from_ctx(input, PropertyOffset)
               has_data == input[PropertyOffset + 7] # 0
               n == IF has_data THEN PayloadSize(field.field_type) ELSE 0
               payload == SubSeq(input, PropertyOffset + 8, PropertyOffset + 7 + n)
               written == PropertyField_write(field).bytes
           IN  /\ read.ok /\ read.val = field
               /\ read.off = PropertyOffset + 7 + n
               /\ field.vector_data
                    = IF has_data /\ field.field_type = "Vec4"
                      THEN Some(payload) ELSE None
               /\ field.matrix_data
                    = IF has_data /\ field.field_type \in {"Mat3", "Mat4"}
                      THEN Some(payload) ELSE None
               /\ Len(written) = (IF field.field_type = "External" THEN 2 ELSE 7) + n
               /\ SubSeq(written, Len(written) - n + 1, Len(written)) = payload

(* C25: a Mat3 with its 36 bytes has been decoded and emitted.             *)
C25_Witness ==
    /\ pc = "emitted" /\ input = FxPropFile(<<"Mat3d">>)
    /\ res.val.property_fields[1][2].matrix_data = Some(FxFill(36, 187))
    /\ Len(PropertyField_write(res.val.property_fields[1][2]).bytes) = 7 + 36


(* The offset of the first sampler definition of a file of SamplerFiles.   *)
SamplerOffset == 76

(* The wire length of an `Option<T>` whose value takes n bytes.            *)
OptionLen(opt, n) == 1 + (IF opt = None THEN 0 ELSE n)

(* The wire length of a sampler definition at a schema, field by field.    *)
SamplerWireLen(self, version) ==
    (IF version = "V1_18_30" THEN 1 ELSE 2) + 4
    + 4 + Len(self.texture_format) + 4
    + (IF version = "V1_18_30" THEN 0 ELSE 1)
    + (IF version = "V1_21_20" THEN OptionLen(self.sampler_state, 1) ELSE 0)
    + OptionLen(self.default_texture,
                IF self.default_texture = None THEN 0
                ELSE 4 + Len(self.default_texture[1]))
    + (IF version \in {"V1_20_80", "V1_21_20"}
       THEN OptionLen(self.unknown_string,
                      IF self.unknown_string = None THEN 0
                      ELSE 4 + Len(self.unknown_string[1]))
       ELSE 0)
    + OptionLen(self.custom_type_info,
                IF self.custom_type_info = None THEN 0
                ELSE 4 + Len(self.custom_type_info[1].name) + 4)

(* C26: the schema matrix of a sampler definition.  Decode and emit have   *)
(* the optional sampler state on the wire exactly at 1.21.20 and the       *)
(* optional opaque string exactly at 1.20.80 and 1.21.20; at every other   *)
(* schema the two fields take no bytes and decode to nothing.              *)
C26_SamplerSchemaMatrix ==
    (pc \in {"decoded", "emitted", "emit_failed"} /\ input \in SamplerFiles)
        => LET self == res.val.sampler_definitions[1][2]
               read == SamplerDefinition_try_from_ctx(input, SamplerOffset, ctx)
               written == SamplerDefinition_write(self, target)
           IN  /\ read.ok /\ read.val = self
               /\ read.off - SamplerOffset = SamplerWireLen(self, ctx)
               /\ ctx # "V1_21_20" => self.sampler_state = None
               /\ ctx \notin {"V1_20_80", "V1_21_20"} => self.unknown_string = None
               /\ (pc = "emitted" \/ (pc = "emit_failed" /\ written.ok))
                    => Len(written.bytes) = SamplerWireLen(self, target)

(* C26: a sampler with both optional fields, read at 1.21.20, has been     *)
(* emitted at 1.19.60 without them.                                        *)
C26_Witness ==
    /\ pc = "emitted" /\ ctx = "V1_21_20" /\ target = "V1_19_60"
    /\ input = FxSamplerFile("V1_21_20", <<<<3, 0>>>>)
    /\ res.val.sampler_definitions[1][2].sampler_state = Some(6)
    /\ res.val.sampler_definitions[1][2].unknown_string = Some(<<117>>)
    /\ Len(SamplerDefinition_write(res.val.sampler_definitions[1][2], "V1_21_20").bytes)
         = Len(SamplerDefinition_write(res.val.sampler_definitions[1][2], target).bytes)
           + 2 + 6


(* C27: the width of the register.  It is read as one byte at 1.18.30 and  *)
(* as a little-endian u16 at every other schema.  The emit at 1.18.30      *)
(* writes the register as one byte when it is at most 255 and otherwise    *)
(* fails with the integer conversion error, the sampler having written     *)
(* nothing; the emit at any other schema writes the two bytes of the u16.  *)
C27_RegisterWidth ==
    (pc \in {"decoded", "emitted", "emit_failed"} /\ input \in SamplerFiles)
        => LET self == res.val.sampler_definitions[1][2]
               written == SamplerDefinition_write(self, target)
           IN  /\ self.reg = IF ctx = "V1_18_30" THEN input[SamplerOffset + 1]
                             ELSE input[SamplerOffset + 1]
                                  + 256 * input[SamplerOffset + 2]
               /\ (pc # "decoded" /\ target = "V1_18_30" /\ self.reg <= 255)
                    => SubSeq(written.bytes, 1, 1) = <<self.reg>>
               /\ (pc # "decoded" /\ target = "V1_18_30" /\ self.reg > 255)
                    => /\ ~written.ok /\ written.err = "IntConvert"
                       /\ written.bytes = <<>>
                       /\ pc = "emit_failed" /\ out.err = "IntConvert"
               /\ (pc # "decoded" /\ target # "V1_18_30")
                    => SubSeq(written.bytes, 1, 2)
                         = <<self.reg % 256, self.reg \div 256>>

(* C27: the emit at 1.18.30 of a sampler with register 300 has failed.     *)
C27_Witness ==
    /\ pc = "emit_failed" /\ ctx = "V1_19_60" /\ target = "V1_18_30"
    /\ input = FxSamplerFile("V1_19_60", <<<<300, 0>>>>)
    /\ res.val.sampler_definitions[1][2].reg = 300
    /\ out.err = "IntConvert"


(* C28: the wire order of a variant.  The emit writes the is_supported     *)
(* byte, the u16 count of flags, the u16 count of shader codes, then every *)
(* flag pair and then every shader-code entry; each count is the number of *)
(* entries written.                                                        *)
C28_VariantWireOrder ==
    pc \in {"emitted", "emit_failed"}
        => \A p \in 1..Len(res.val.passes) :
             \A i \in 1..Len(res.val.passes[p][2].variants) :
                LET self == res.val.passes[p][2].variants[i]
                    written == Variant_write(self)
                IN  /\ written[1] = BoolByte(self.is_supported)
                    /\ LEValue(SubSeq(written, 2, 3)) = Len(self.flags)
                    /\ LEValue(SubSeq(written, 4, 5)) = Len(self.shader_codes)
                    /\ SubSeq(written, 6, Len(written))
                         = write_pairs(self.flags)
                           \o write_shader_codes(self.shader_codes)

(* C28: a variant of one flag and one shader code has been emitted.        *)
C28_Witness ==
    /\ pc = "emitted"
    /\ input = FxPassFile(<<FxPass(<<98>>, Some(2), <<"full">>)>>)
    /\ Len(res.val.passes[1][2].variants) = 1
    /\ Len(res.val.passes[1][2].variants[1].flags) = 1
    /\ Len(res.val.passes[1][2].variants[1].shader_codes) = 1
    /\ SubSeq(Variant_write(res.val.passes[1][2].variants[1]), 1, 5) = <<1, 1, 0, 1, 0>>


(* C29: decode-then-emit is deterministic.  The bytes emitted for a        *)
(* decoded tree at a target are the bytes of every other emit of the same  *)
(* decoding at that target, whatever order its tables are iterated in.     *)
C29_Determinism ==
    pc \in {"emitted", "emit_failed"}
        => \A order \in Orders(res.val) :
              CompiledMaterialDefinition_write(res.val, target, order) = out

(* C29: a file of two property fields has been emitted, and an emit of the *)
(* same tree that iterates the table the other way writes other bytes.     *)
C29_Witness ==
    /\ pc = "emitted" /\ input = FxPropFile(<<"Vec4n", "ExtC0">>)
    /\ \E order \in Orders(res.val) :
          LET again == CompiledMaterialDefinition_write(res.val, target, order)
          IN  again.ok /\ again.bytes # out.bytes


(* C30: the round trip of a bgfx shader.  When the decoder accepts a blob  *)
(* and consumes all of it, the emit of the decoded shader writes the blob  *)
(* back, whatever its terminator byte and whatever the shape of its        *)
(* trailer; and a decoded shader has an attribute list exactly when it has *)
(* a size.                                                                 *)
C30_BgfxRoundTrip ==
    /\ (pc \in {"shader_emitted", "shader_emit_failed"} /\ res.off = Len(input))
          => out.ok /\ out.bytes = input
    /\ pc \in {"shader_decoded", "shader_emitted", "shader_emit_failed"}
          => (res.val.attributes # None <=> res.val.size # None)

(* C30: a blob with terminator byte 7 and a trailer of two attributes has  *)
(* been decoded to its end and emitted, with a terminator of 0.            *)
C30_Witness ==
    /\ pc = "shader_emitted"
    /\ input = FxShader(0, <<>>, <<2, 0, 0, 0, 200, 201>>, 7, "attrs")
    /\ res.off = Len(input) /\ res.val.attributes # None /\ res.val.size # None
    /\ input[17] = 7 /\ out.bytes[17] = 0
    /\ Len(out.bytes) = Len(input)

====
